---------------------------- MODULE Spec2Model ----------------------------
(***************************************************************************)
(* Model of the memory-collector ingestion pipeline:                       *)
(*   - PerfRing  (crates/perf/src/ring.rs), byte level                     *)
(*   - Reader    (crates/perf_events/src/reader.rs)                        *)
(*   - MinTracker / BpfTimeslotTracker                                     *)
(*   - TaskCollection                                                      *)
(*   - ParquetWriter size accounting                                       *)
(* Each component has its own specification (SpecRing, SpecReader, ...);   *)
(* the variables of the other components stay at their initial values.     *)
(***************************************************************************)
EXTENDS Integers, Sequences, FiniteSets, TLC

VARIABLES
    \* ---- PerfRing (one ring, a producer handle and a consumer handle)
    mem,        \* shared memory: data bytes, data_head, data_tail
    prod,       \* producer's PerfRing handle: head (tail snapshot), tail
    cons,       \* consumer's PerfRing handle: head, tail (head snapshot)
    wbatch,     \* producer is inside start_write_batch .. finish_write_batch
    rbatch,     \* consumer is inside start_read_batch .. finish_read_batch
    pending,    \* payloads accepted by write and not yet popped (FIFO)
    nwrites,    \* number of write calls made so far
    ret,        \* result of the last call
    \* ---- Reader
    rings,      \* Reader.rings: per ring its memory, the Reader's handle (cons)
                \* and the producer's handle on the same memory (prod)
    heap,       \* Reader.heap: the PerfEntry values held by the BinaryHeap
    in_heap,    \* Reader.in_heap
    active,     \* Reader.active
    last,       \* the last call made on the Reader and its result
    popped,     \* records popped in the current batch: ring, type, key, ts
    nrecords,   \* number of records written to the Reader's rings so far
    produced,   \* per ring, the records its producer's write accepted, in order
    consumed,   \* per ring, the records popped through the Reader, as read
    \* ---- BpfTimeslotTracker
    min_tracker,    \* MinTracker: time_slot_size, cpu_timestamps,
                    \* time_slot_counts, uninitialized_cpus
    last_min_slot,  \* BpfTimeslotTracker.last_min_slot
    subscribers,    \* number of callbacks in BpfTimeslotTracker.subscribers
    delivered,      \* callbacks invoked by the last handler call, in order
    tcall,          \* the last record handled and what update returned for it
    \* ---- TaskCollection
    tasks,          \* TaskCollection.tasks: pid -> comm
    removal_queue,  \* TaskCollection.removal_queue
    freed,          \* pids freed while registered since the last flush
    removed,        \* pids the last flush removed
    \* ---- ParquetWriter
    config,                     \* buffer_size, file_size_limit, storage_quota
    current_writer,             \* the open AsyncArrowWriter, or None
    closed_files_size,
    flushed_row_groups_size,
    flushed_row_groups_count,
    in_memory_size,
    files,                      \* bytes of each file closed so far
    nbatches,                   \* number of write calls made so far
    wlast,                      \* the last call made on the writer
    \* task_completion_handler (task_completion_handler.rs), one per handler
    task_outcome,   \* state of the spawned future: "unspawned", "running", "Ok", "Err", "Panicked"
    handler_pc,     \* position of the handler: "start", "awaiting", "returned"
    token_of,       \* the CancellationToken passed to each handler
    cancelled,      \* the tokens on which cancel() has been called
    cancelled_by,   \* per token, the handlers that called cancel() on it
    logs,           \* per handler, the levels of the lines it logged
    \* ---- Dispatcher (dispatcher.rs), reading from the Reader above
    sample_subscribers, \* Dispatcher.sample_subscribers: message type -> callbacks
    lost_subscribers,   \* Dispatcher.lost_subscribers
    stats,              \* Dispatcher.stats
    calls,              \* the callback invocations of the last dispatch, in order
    dlast,              \* result of the last dispatch
    \* ---- BpfPerfToTimeslot (bpf_perf_to_timeslot.rs) behind the dispatcher
    current_timeslot,   \* BpfPerfToTimeslot.current_timeslot: start and number of updates
    timeslot_tx,        \* the completed timeslots accepted by the channel
    error_counter,      \* BpfPerfToTimeslot.error_counter
    perf_delivered,     \* the measurements handed to handle_perf_measurement, in order
    announced,          \* the new boundaries handed to every timeslot subscriber so far
    \* ---- initialize_sync_timer (bpf/src/sync_timer.rs)
    sync_pc,            \* position: "with_mode", "all_cores", "core", "restore_affinity",
                        \* "restore_sysctl", "returned"
    mode,               \* index in Modes of the mode being attempted
    next_cpu,           \* cpu_id, the loop variable of initialize_timers_on_all_cores
    failed_cores,       \* failed_cores of the sweep
    thread_affinity,    \* CPUs the calling thread may run on
    original_cpu_set,   \* the affinity captured at the start of the sweep
    timer_migration,    \* kernel.timer_migration
    original_migration, \* original_migration of initialize_timers_with_mode
    invoked,            \* test_run calls of the sweep: cpu_id, affinity and CPU at the
                        \* call, and whether SUCCESS was returned
    sweep_result,       \* result of initialize_timers_on_all_cores, once it returned
    attempts,           \* the calls of initialize_timers_with_mode made: mode, result
                        \* and number of test_run calls
    sync_result,        \* result of initialize_sync_timer, once it returned
    \* collector/src/main.rs and parquet_writer_task.rs: the threads of the process
    main_pc,            \* main thread: "polling" (at the head of the loop), "poll_events",
                        \* "joining" (block_on(monitoring_handle)), "exited"
    monitor_pc,         \* monitoring task: "select", "rotating" (in rotate_sender.send().await),
                        \* "shutting_down" (in writer_task.shutdown().await), "returned"
    monitor_result,     \* the monitoring task's Result: "None", "Ok", "Err"
    shutdown_tx,        \* the oneshot to the poll loop: "unsent", "sent", "dropped"
    bpf_error_tx,       \* the oneshot to the monitoring task: "unsent", "sent"
    writer_pc,          \* TaskRunner::run: "loop" (the while test), "select", "returned"
    writer_result,      \* result of the writer task: "None", "Ok", "Err", "Panicked"
    shutdown_signal,    \* the value of the watch channel
    channel,            \* the items queued in the TimeslotData channel
    rotate_channel,     \* the number of signals queued in the rotate channel
    items_written,      \* the items the writer has written
    closes,             \* how many times ParquetWriter::close has run
    exit_status,        \* "running", "success" (status 0), "failure" (nonzero status)
    next_item,          \* number of timeslots completed by the poll loop
    poll_last,          \* what the last poll_events did
    queued_at_shutdown, \* the channel when shutdown was signalled
    io_errors,          \* number of I/O errors the writer has returned inside the task
    rotate_requests,    \* number of SIGUSR1 received
    \* collector/src/bpf_perf_to_trace.rs: BpfPerfToTrace and its channel
    current_rows,       \* rows appended to the builders since the last flush
    last_flush,         \* clock reading at the last flush
    trace_clock,        \* the clock (Instant::now()), in ticks
    batch_tx,           \* Some(sender) until shutdown has taken it
    batch_channel,      \* row counts of the batches queued in the channel
    trace_emitted,      \* row counts of the batches handed to try_send
    trace_dropped       \* number of batches try_send has refused

ringVars == <<mem, prod, cons, wbatch, rbatch, pending, nwrites, ret>>

readerVars == <<rings, heap, in_heap, active, last, popped, nrecords, produced, consumed>>

timeslotVars == <<min_tracker, last_min_slot, subscribers, delivered, tcall>>

taskVars == <<tasks, removal_queue, freed, removed>>

writerVars == <<config, current_writer, closed_files_size, flushed_row_groups_size,
                flushed_row_groups_count, in_memory_size, files, nbatches, wlast>>

handlerVars == <<task_outcome, handler_pc, token_of, cancelled, cancelled_by, logs>>

dispatcherVars == <<sample_subscribers, lost_subscribers, stats, calls, dlast>>

perfVars == <<current_timeslot, timeslot_tx, error_counter, perf_delivered, announced>>

syncVars == <<sync_pc, mode, next_cpu, failed_cores, thread_affinity, original_cpu_set,
              timer_migration, original_migration, invoked, sweep_result, attempts,
              sync_result>>

mainVars == <<main_pc, monitor_pc, monitor_result, shutdown_tx, bpf_error_tx, writer_pc,
              writer_result, shutdown_signal, channel, rotate_channel, items_written, closes,
              exit_status, next_item, poll_last, queued_at_shutdown, io_errors, rotate_requests>>

traceVars == <<current_rows, last_flush, trace_clock, batch_tx, batch_channel, trace_emitted,
               trace_dropped>>

vars == <<ringVars, readerVars, timeslotVars, taskVars, writerVars, handlerVars, dispatcherVars, perfVars, syncVars, mainVars, traceVars>>

----------------------------------------------------------------------------
(* Bounds of the model *)

\* log2 of the data buffer length of the ring of SpecRing
RingLog2 == 5

\* number of write calls explored in SpecRing
MaxWrites == 2

\* log2 of the data buffer length of the rings of SpecReader
ReaderRingLog2 == 6

\* number of rings added to the Reader
MaxRings == 2

\* number of records written to the Reader's rings
MaxRecords == 3

MaxTs == 2

\* number of CPUs of the timeslot tracker (num_possible_cpus, at least 1)
NumCpus == 2

\* timestamps run over 0 .. MaxTicks half time slots
MaxTicks == 4

\* number of subscribers of the timeslot tracker
MaxSubscribers == 2

\* pids, metadata values and queued removals of the task collection
MaxPid == 3

MaxComm == 2

MaxQueue == 3

\* writer configurations, batch sizes and number of write calls explored
MaxBufferSize == 2

MaxFileSizeLimit == 3

MaxQuota == 4

MaxBatchBytes == 2

MaxSaved == 1

MaxBatches == 3

\* number of closed files up to which rotate is explored
MaxFiles == 3

\* concurrent task completion handlers and the tokens they are given
NumHandlers == 3

NumTokens == 2

\* number of callbacks registered with the Dispatcher, and of records
\* written to the rings it reads
MaxCallbacks == 3

MaxDispatcherRecords == 2

\* clock readings of the CPUs' producers, in half time slots
MaxCollectorTicks == 3

\* the process: capacity of the TimeslotData channel, timeslots completed,
\* SIGUSR1 received
ChannelCapacity == 2
MaxItems == 3
MaxRotateRequests == 2

\* the trace builder: capacity of the builders (rows) and of the batch
\* channel, clock ticks per second, last clock reading, batches emitted
TraceCapacity == 2
BatchChannelCapacity == 1
TicksPerSecond == 2
MaxClock == 5
MaxTraceBatches == 3

\* the aggregator on its own: measurements handled, timeslot advances, pids
MaxSamples == 3

MaxAdvances == 2

MaxAggPid == 2

(* Program constants *)
RotateCapacity == 1

\* kinds of the samples of the BPF programs
MSG_TYPE_PERF_MEASUREMENT == 3

MSG_TYPE_TIMER_FINISHED_PROCESSING == 4

\* message types of the dispatcher's tests
MSG_TYPE_FOO == 1

MSG_TYPE_BAR == 2

\* size_of::<SampleHeader>() : u32 size, u32 type_, u64 timestamp
SampleHeaderSize == 16

PERF_RECORD_SAMPLE == 9

PERF_RECORD_LOST == 2

\* size_of::<PerfEventHeader>() : u32 type_, u16 misc, u16 size
HeaderSize == 8

\* width of PerfEventHeader.size (u16)
SizeFieldMod == 65536

\* time slot size passed to MinTracker::new by BpfTimeslotTracker::new
TimeSlotSize == 1000000

----------------------------------------------------------------------------
(* Little-endian encoding helpers *)

Pow256(k) == 256 ^ k

\* the k-th (0-based) little-endian byte of v
LeByte(v, k) == IF k >= 4 THEN 0 ELSE (v \div Pow256(k)) % 256

\* value of a little-endian byte sequence (1-based Sequence of bytes)
RECURSIVE FromLeBytes(_)
FromLeBytes(bs) ==
    IF bs = <<>> THEN 0 ELSE Head(bs) + 256 * FromLeBytes(Tail(bs))

----------------------------------------------------------------------------
(* PerfRing: a ring is given by the shared memory m = [data, data_head,    *)
(* data_tail] and a handle h = [head, tail].                               *)

DataLen(m) == Len(m.data)

BufMask(m) == DataLen(m) - 1

\* data[i] for a 0-based offset i
Byte(m, i) == m.data[i + 1]

\* init_contiguous: head := data_tail, tail := data_head
InitContiguous(m) == [head |-> m.data_tail, tail |-> m.data_head]

\* aligned_len of write
AlignedLen(n, event_type) ==
    LET unaligned_len == n + HeaderSize + (IF event_type = PERF_RECORD_SAMPLE THEN 4 ELSE 0)
    IN  ((unaligned_len + 7) \div 8) * 8

\* the early returns of write; "Ok" when the record is written
WriteCannotFit(m, aligned_len) == aligned_len > BufMask(m)

\* mutant: the space check forgets the length of the new record
WriteNoSpace_ForgetsLen(m, h, aligned_len) == h.tail - h.head > BufMask(m) + 1

WriteNoSpace(m, h, aligned_len) == h.tail + aligned_len - h.head > BufMask(m) + 1

WriteResult(m, h, payload, event_type) ==
    LET aligned_len == AlignedLen(Len(payload), event_type)
    IN  IF Len(payload) = 0 THEN "EmptyWrite"
        ELSE IF WriteCannotFit(m, aligned_len) THEN "CannotFit"
        ELSE IF WriteNoSpace(m, h, aligned_len) THEN "NoSpace"
        ELSE "Ok"

\* position of the payload bytes of a record whose header is at h.tail
WriteDataPos(m, h, event_type) ==
    LET p == (h.tail + HeaderSize) % DataLen(m)
    IN  IF event_type = PERF_RECORD_SAMPLE THEN (p + 4) % DataLen(m) ELSE p

\* destination offset of payload byte k (0-based) for a payload of n bytes
\* copied to data_pos: contiguous, or split at the end of the buffer
CopyDest(data_len, data_pos, n, k) ==
    IF data_pos + n <= data_len
    THEN data_pos + k
    ELSE LET first_part == data_len - data_pos
         IN  IF k < first_part THEN data_pos + k ELSE k - first_part

\* the data bytes after a successful write
WriteData(m, h, payload, event_type) ==
    LET n == Len(payload)
        aligned_len == AlignedLen(n, event_type)
        header_pos == h.tail % DataLen(m)
        size16 == aligned_len % SizeFieldMod
        hdr == [k \in 0..7 |->
                  IF k < 4 THEN LeByte(event_type, k)
                  ELSE IF k < 6 THEN 0
                  ELSE LeByte(size16, k - 6)]
        size_pos == (h.tail + HeaderSize) % DataLen(m)
        size_value == ((n + 4 + 7) \div 8) * 8
        data_pos == WriteDataPos(m, h, event_type)
        \* the payload byte copied to offset i, if any: k with CopyDest(k) = i
        src(i) == (i - data_pos) % DataLen(m)
        written(i) == src(i) < n /\ CopyDest(DataLen(m), data_pos, n, src(i)) = i
    IN  [i1 \in 1..DataLen(m) |->
           LET i == i1 - 1 IN
           IF written(i) THEN payload[src(i) + 1]
           ELSE IF event_type = PERF_RECORD_SAMPLE /\ i >= size_pos /\ i < size_pos + 4
                THEN LeByte(size_value, i - size_pos)
           ELSE IF i >= header_pos /\ i < header_pos + 8 THEN hdr[i - header_pos]
           ELSE m.data[i1]]

\* header.size and header.type_ of the record at h.head
HeaderSizeField(m, h) ==
    LET p == h.head % DataLen(m)
    IN  Byte(m, p + 6) + 256 * Byte(m, p + 7)

PeekType(m, h) ==
    LET p == h.head % DataLen(m)
    IN  FromLeBytes(<<Byte(m, p), Byte(m, p + 1), Byte(m, p + 2), Byte(m, p + 3)>>)

\* peek_size: err is "BufferEmpty", or "Ok" with the payload size
PeekSize(m, h) ==
    IF h.tail = h.head
    THEN [err |-> "BufferEmpty", size |-> 0]
    ELSE [err |-> "Ok", size |-> HeaderSizeField(m, h) - HeaderSize]

\* peek_copy into a buffer of n bytes at offset: err is an error name, or
\* "Ok" with the bytes read
PeekCopy(m, h, n, offset) ==
    LET ps == PeekSize(m, h) IN
    IF ps.err # "Ok" THEN [err |-> ps.err, bytes |-> <<>>]
    ELSE IF n > ps.size THEN [err |-> "SizeExceeded", bytes |-> <<>>]
    ELSE LET start_pos == (h.head + HeaderSize + offset) % DataLen(m)
             end_pos == (start_pos + n - 1) % DataLen(m)
         IN  IF end_pos < start_pos
             THEN LET first_len == DataLen(m) - start_pos
                  IN  [err |-> "Ok",
                       bytes |-> [k \in 1..n |->
                         IF k <= first_len THEN Byte(m, start_pos + k - 1)
                         ELSE Byte(m, k - 1 - first_len)]]
             ELSE [err |-> "Ok", bytes |-> [k \in 1..n |-> Byte(m, start_pos + k - 1)]]

\* mutant: pop leaves the head where it is
PopHandle_Stays(m, h) == h

\* pop: the handle after consuming the record at head
PopHandle(m, h) == [h EXCEPT !.head = h.head + HeaderSizeField(m, h)]

\* bytes_remaining
BytesRemaining(m, h) ==
    LET begin == h.head % DataLen(m)
        end == h.tail % DataLen(m)
    IN  IF end < begin THEN DataLen(m) - begin + end ELSE end - begin

----------------------------------------------------------------------------
(* SpecRing: one ring, one producer and one consumer, each working in      *)
(* batches.                                                                *)

RingDataLen == 2 ^ RingLog2

\* payload of n bytes, distinguishable by position and by write number
TestPayload(n, k) == [i \in 1..n |-> (k * 64 + i) % 256]

\* payload lengths tried by the producer: the edges of the size checks
RingPayloadLens ==
    {0, 1, RingDataLen - 20, RingDataLen - 19, RingDataLen - 13,
     RingDataLen - 12, RingDataLen} \cap (0..RingDataLen)

\* the ring starts empty at any 8-aligned offset (init_contiguous reads
\* data_head and data_tail from the metadata page)
RingInit ==
    /\ \E off \in {8 * k : k \in 0..(RingDataLen \div 8 - 1)} :
          mem = [data |-> [i \in 1..RingDataLen |-> 0],
                 data_head |-> off, data_tail |-> off]
    /\ prod = InitContiguous(mem)
    /\ cons = InitContiguous(mem)
    /\ wbatch = FALSE
    /\ rbatch = FALSE
    /\ pending = <<>>
    /\ nwrites = 0
    /\ ret = "None"

StartWriteBatch ==
    /\ ~wbatch
    /\ prod' = [prod EXCEPT !.head = mem.data_tail]
    /\ wbatch' = TRUE
    /\ ret' = "Ok"
    /\ UNCHANGED <<mem, cons, rbatch, pending, nwrites>>

Write(payload, event_type) ==
    /\ wbatch
    /\ nwrites < MaxWrites
    /\ nwrites' = nwrites + 1
    /\ ret' = WriteResult(mem, prod, payload, event_type)
    /\ IF ret' = "Ok"
       THEN /\ mem' = [mem EXCEPT !.data = WriteData(mem, prod, payload, event_type)]
            /\ prod' = [prod EXCEPT !.tail = prod.tail + AlignedLen(Len(payload), event_type)]
            /\ pending' = Append(pending, [type |-> event_type, data |-> payload])
       ELSE UNCHANGED <<mem, prod, pending>>
    /\ UNCHANGED <<cons, wbatch, rbatch>>

WriteAny ==
    \E n \in RingPayloadLens, t \in {PERF_RECORD_SAMPLE, PERF_RECORD_LOST} :
        Write(TestPayload(n, nwrites + 1), t)

FinishWriteBatch ==
    /\ wbatch
    /\ mem' = [mem EXCEPT !.data_head = prod.tail]
    /\ wbatch' = FALSE
    /\ ret' = "Ok"
    /\ UNCHANGED <<prod, cons, rbatch, pending, nwrites>>

StartReadBatch ==
    /\ ~rbatch
    /\ cons' = [cons EXCEPT !.tail = mem.data_head]
    /\ rbatch' = TRUE
    /\ ret' = "Ok"
    /\ UNCHANGED <<mem, prod, wbatch, pending, nwrites>>

Pop ==
    /\ rbatch
    /\ IF cons.tail = cons.head
       THEN /\ ret' = "BufferEmpty"
            /\ UNCHANGED <<cons, pending>>
       ELSE /\ ret' = "Ok"
            /\ cons' = PopHandle(mem, cons)
            /\ pending' = Tail(pending)
    /\ UNCHANGED <<mem, prod, wbatch, rbatch, nwrites>>

FinishReadBatch ==
    /\ rbatch
    /\ mem' = [mem EXCEPT !.data_tail = cons.head]
    /\ rbatch' = FALSE
    /\ ret' = "Ok"
    /\ UNCHANGED <<prod, cons, wbatch, pending, nwrites>>

----------------------------------------------------------------------------
(* Reader (perf_events/src/reader.rs).  rings[i] is the ring with          *)
(* ring_index i - 1.                                                       *)

ReaderDataLen == 2 ^ ReaderRingLog2

\* a fresh ring: zeroed pages, as in the tests' vec![0u8; ...]
NewRing ==
    LET m == [data |-> [i \in 1..ReaderDataLen |-> 0], data_head |-> 0, data_tail |-> 0]
    IN  [mem |-> m, cons |-> InitContiguous(m), prod |-> InitContiguous(m)]

\* offset_of!(SampleHeader, timestamp)
TimestampOffset == 8

LeBytes(v, n) == [k \in 1..n |-> LeByte(v, k - 1)]

\* a u64 is kept as its 8 little-endian bytes; U64Leq is <= on
\* u64::from_le_bytes of the two
Zero64 == LeBytes(0, 8)

U64Leq(a, b) ==
    \/ a = b
    \/ \E k \in 1..8 : a[k] < b[k] /\ \A j \in (k + 1)..8 : a[j] = b[j]

\* the key maintain_heap_entry computes for the head record of a ring
HeadTimestamp(r) ==
    IF PeekType(r.mem, r.cons) = PERF_RECORD_SAMPLE
    THEN LET c == PeekCopy(r.mem, r.cons, 8, TimestampOffset)
         IN  IF c.err = "Ok" THEN c.bytes ELSE Zero64
    ELSE Zero64

\* maintain_heap_entry(idx) on <<rings, heap, in_heap>>
MaintainHeapEntry(rs, hp, ih, idx) ==
    IF BytesRemaining(rs[idx].mem, rs[idx].cons) = 0
    THEN [heap |-> hp, in_heap |-> ih]
    ELSE [heap |-> Append(hp, [timestamp |-> HeadTimestamp(rs[idx]), ring_index |-> idx]),
          in_heap |-> [ih EXCEPT ![idx] = TRUE]]

\* the entries BinaryHeap::peek / pop may return: PerfEntry's Ord compares
\* the timestamps only, reversed, so any entry of minimal timestamp
\* mutant: the heap hands out an entry of maximal timestamp
HeapTop_Max(hp) ==
    {k \in 1..Len(hp) : \A j \in 1..Len(hp) : U64Leq(hp[j].timestamp, hp[k].timestamp)}

HeapTop(hp) ==
    {k \in 1..Len(hp) : \A j \in 1..Len(hp) : U64Leq(hp[k].timestamp, hp[j].timestamp)}

RemoveAt(sq, k) == [j \in 1..(Len(sq) - 1) |-> IF j < k THEN sq[j] ELSE sq[j + 1]]

\* the Reader before any call (Reader::new)
ReaderNew ==
    /\ rings = <<>>
    /\ heap = <<>>
    /\ in_heap = <<>>
    /\ active = FALSE
    /\ last = [op |-> "new", res |-> "Ok"]
    /\ popped = <<>>
    /\ nrecords = 0
    /\ produced = <<>>
    /\ consumed = <<>>

\* results of the calls, from their early returns
AddRingResult == IF active THEN "AlreadyActive" ELSE "Ok"

\* mutant: start does not look at active
StartResult_NoActiveCheck == IF Len(rings) = 0 THEN "NoRings" ELSE "Ok"

StartResult ==
    IF Len(rings) = 0 THEN "NoRings"
    ELSE IF active THEN "AlreadyActive"
    ELSE "Ok"

PeekTimestampResult ==
    IF ~active THEN "NotActive"
    ELSE IF heap = <<>> THEN "BufferEmpty"
    ELSE "Ok"

CurrentRingResult ==
    IF ~active THEN "NotActive"
    ELSE IF heap = <<>> THEN "BufferEmpty"
    ELSE "Ok"

PopResult ==
    IF ~active THEN "NotActive"
    ELSE IF heap = <<>> THEN "BufferEmpty"
    ELSE "Ok"

IsEmpty == IF ~active THEN TRUE ELSE heap = <<>>

\* add_ring
AddRing ==
    /\ Len(rings) < MaxRings
    /\ IF AddRingResult = "Ok"
       THEN /\ rings' = Append(rings, NewRing)
            /\ in_heap' = Append(in_heap, FALSE)
            /\ produced' = Append(produced, <<>>)
            /\ consumed' = Append(consumed, <<>>)
       ELSE UNCHANGED <<rings, in_heap, produced, consumed>>
    /\ last' = [op |-> "add_ring", res |-> AddRingResult]
    /\ UNCHANGED <<heap, active, popped, nrecords>>

\* the loop of start over rings idx..Len(rs)
RECURSIVE StartLoop(_, _, _, _)
StartLoop(rs, hp, ih, idx) ==
    IF idx > Len(rs) THEN [rings |-> rs, heap |-> hp, in_heap |-> ih]
    ELSE LET r == rs[idx]
             rs1 == [rs EXCEPT ![idx].cons.tail = r.mem.data_head]
             st == IF ~ih[idx] THEN MaintainHeapEntry(rs1, hp, ih, idx)
                   ELSE [heap |-> hp, in_heap |-> ih]
         IN  StartLoop(rs1, st.heap, st.in_heap, idx + 1)

\* start
Start ==
    /\ IF StartResult = "Ok"
       THEN LET st == StartLoop(rings, heap, in_heap, 1) IN
            /\ rings' = st.rings
            /\ heap' = st.heap
            /\ in_heap' = st.in_heap
            /\ active' = TRUE
            /\ popped' = <<>>
       ELSE UNCHANGED <<rings, heap, in_heap, active, popped>>
    /\ last' = [op |-> "start", res |-> StartResult]
    /\ UNCHANGED <<nrecords, produced, consumed>>

\* finish
Finish ==
    /\ IF active
       THEN /\ rings' = [i \in 1..Len(rings) |->
                           [rings[i] EXCEPT !.mem.data_tail = rings[i].cons.head]]
            /\ active' = FALSE
       ELSE UNCHANGED <<rings, active>>
    /\ last' = [op |-> "finish", res |-> "Ok"]
    /\ UNCHANGED <<heap, in_heap, popped, nrecords, produced, consumed>>

\* the timestamp a record carries: the u64 of its SampleHeader when it is a
\* SAMPLE whose payload holds the whole header, and 0 otherwise
CarriedTimestamp(m, h) ==
    IF PeekType(m, h) = PERF_RECORD_SAMPLE /\ PeekSize(m, h).size >= 16
    THEN PeekCopy(m, h, 8, TimestampOffset).bytes
    ELSE Zero64

\* the record at the consumer's position, as peek_type, peek_size and
\* peek_copy of its whole payload read it
RecordAt(m, h) ==
    [type |-> PeekType(m, h),
     size |-> PeekSize(m, h).size,
     bytes |-> PeekCopy(m, h, PeekSize(m, h).size, 0).bytes]

\* pop of the heap entry at position k of the heap
PopEntry(k) ==
    LET entry == heap[k]
        idx == entry.ring_index
        r == rings[idx]
        hp1 == RemoveAt(heap, k)
        ih1 == [in_heap EXCEPT ![idx] = FALSE]
    IN  IF r.cons.tail = r.cons.head
        THEN \* rings[idx].pop()? returns BufferEmpty
             /\ heap' = hp1
             /\ in_heap' = ih1
             /\ last' = [op |-> "pop", res |-> "BufferEmpty"]
             /\ UNCHANGED <<rings, popped, consumed>>
        ELSE LET rs1 == [rings EXCEPT ![idx].cons = PopHandle(r.mem, r.cons)]
                 st == MaintainHeapEntry(rs1, hp1, ih1, idx)
             IN  /\ rings' = rs1
                 /\ heap' = st.heap
                 /\ in_heap' = st.in_heap
                 /\ last' = [op |-> "pop", res |-> "Ok"]
                 /\ popped' = Append(popped,
                        [ring |-> idx, type |-> PeekType(r.mem, r.cons),
                         key |-> entry.timestamp,
                         whole |-> PeekType(r.mem, r.cons) # PERF_RECORD_SAMPLE
                                   \/ PeekSize(r.mem, r.cons).size >= 16,
                         ts |-> CarriedTimestamp(r.mem, r.cons)])
                 /\ consumed' = [consumed EXCEPT ![idx] = Append(@, RecordAt(r.mem, r.cons))]

\* pop
ReaderPop ==
    /\ IF PopResult = "Ok"
       THEN \E k \in HeapTop(heap) : PopEntry(k)
       ELSE /\ last' = [op |-> "pop", res |-> PopResult]
            /\ UNCHANGED <<rings, heap, in_heap, popped, consumed>>
    /\ UNCHANGED <<active, nrecords, produced>>

\* peek_timestamp
PeekTimestamp ==
    /\ last' = [op |-> "peek_timestamp", res |-> PeekTimestampResult]
    /\ UNCHANGED <<rings, heap, in_heap, active, popped, nrecords, produced, consumed>>

\* current_ring
CurrentRing ==
    /\ last' = [op |-> "current_ring", res |-> CurrentRingResult]
    /\ UNCHANGED <<rings, heap, in_heap, active, popped, nrecords, produced, consumed>>

\* payloads the producer writes: a sample {type_, timestamp}, a lost record
\* {id, lost}, and a sample too short to hold the SampleHeader
SamplePayload(ts) == LeBytes(0, 4) \o LeBytes(ts, 8)

LostPayload == LeBytes(0, 8) \o LeBytes(1, 8)

ShortSamplePayload == LeBytes(0, 4)

ReaderRecords ==
    {[type |-> PERF_RECORD_SAMPLE, data |-> SamplePayload(ts)] : ts \in 1..MaxTs}
    \cup {[type |-> PERF_RECORD_LOST, data |-> LostPayload],
          [type |-> PERF_RECORD_SAMPLE, data |-> ShortSamplePayload]}

\* the producer of ring i: start_write_batch, write, finish_write_batch
Produce(i, rec) ==
    /\ nrecords < MaxRecords
    /\ nrecords' = nrecords + 1
    /\ LET r == rings[i]
           h == [r.prod EXCEPT !.head = r.mem.data_tail]
           res == WriteResult(r.mem, h, rec.data, rec.type)
       IN  IF res = "Ok"
           THEN LET tail1 == h.tail + AlignedLen(Len(rec.data), rec.type)
                IN  /\ produced' = [produced EXCEPT ![i] = Append(@, rec)]
                    /\ rings' = [rings EXCEPT
                          ![i].mem = [data |-> WriteData(r.mem, h, rec.data, rec.type),
                                      data_head |-> tail1,
                                      data_tail |-> r.mem.data_tail],
                          ![i].prod = [head |-> h.head, tail |-> tail1]]
           ELSE /\ rings' = [rings EXCEPT ![i].prod = h]
                /\ UNCHANGED produced
    /\ UNCHANGED <<heap, in_heap, active, last, popped, consumed>>

ProduceAny == \E i \in 1..Len(rings), rec \in ReaderRecords : Produce(i, rec)

----------------------------------------------------------------------------
(* MinTracker (timeslot/src/min_tracker.rs) and BpfTimeslotTracker          *)
(* (collector/src/bpf_timeslot_tracker.rs).  Option<T> values are kept as  *)
(* sequences: None is <<>> and Some(v) is <<v>>.                           *)

None == <<>>

Some(v) == <<v>>

UnwrapOr(o, d) == IF o = None THEN d ELSE o[1]

\* timestamps the records carry: multiples of half a time slot
Timestamps == {k * (TimeSlotSize \div 2) : k \in 0..MaxTicks}

\* MinTracker::new
MinTrackerNew(time_slot_size, num_cpus) ==
    [time_slot_size |-> time_slot_size,
     cpu_timestamps |-> [c \in 1..num_cpus |-> None],
     time_slot_counts |-> <<>>,
     uninitialized_cpus |-> num_cpus]

\* *counts.entry(slot).or_insert(0) += 1
CountInc(counts, slot) ==
    IF slot \in DOMAIN counts
    THEN [counts EXCEPT ![slot] = @ + 1]
    ELSE [k \in DOMAIN counts \cup {slot} |-> IF k = slot THEN 1 ELSE counts[k]]

\* mutant: the key stays in the map with the count 0
CountDec_KeepsZero(counts, slot) ==
    IF slot \notin DOMAIN counts THEN counts ELSE [counts EXCEPT ![slot] = @ - 1]

\* *count -= 1, and the key removed when the count reaches 0
CountDec(counts, slot) ==
    IF slot \notin DOMAIN counts THEN counts
    ELSE IF counts[slot] - 1 = 0
    THEN [k \in DOMAIN counts \ {slot} |-> counts[k]]
    ELSE [counts EXCEPT ![slot] = @ - 1]

UpdateCpuIdOutOfRange(mt, cpu_id) == cpu_id >= Len(mt.cpu_timestamps)

\* mutant: a decreasing timestamp is accepted
UpdateNonMonotonic_Never(prev, timestamp) == FALSE

\* mutant: an equal timestamp is refused too
UpdateNonMonotonic_RefusesEqual(prev, timestamp) == prev >= timestamp

UpdateNonMonotonic(prev, timestamp) == prev > timestamp

\* MinTracker::update: the result and the tracker afterwards.  cpu_id is
\* 0-based, cpu_timestamps[cpu_id + 1] is its entry.
Update(mt, cpu_id, timestamp) ==
    IF UpdateCpuIdOutOfRange(mt, cpu_id)
    THEN [res |-> "CpuIdOutOfRange", mt |-> mt]
    ELSE LET prev_timestamp == mt.cpu_timestamps[cpu_id + 1]
             new_slot == timestamp \div mt.time_slot_size
         IN  IF prev_timestamp = None
             THEN [res |-> "Ok",
                   mt |-> [mt EXCEPT
                       !.uninitialized_cpus = @ - 1,
                       !.time_slot_counts = CountInc(@, new_slot),
                       !.cpu_timestamps[cpu_id + 1] = Some(timestamp)]]
             ELSE LET prev == prev_timestamp[1]
                      current_slot == prev \div mt.time_slot_size
                  IN  IF UpdateNonMonotonic(prev, timestamp)
                      THEN [res |-> "NonMonotonicTimestamp", mt |-> mt]
                      ELSE [res |-> "Ok",
                            mt |-> [mt EXCEPT
                                !.time_slot_counts =
                                    IF current_slot # new_slot
                                    THEN CountInc(CountDec(@, current_slot), new_slot)
                                    ELSE @,
                                !.cpu_timestamps[cpu_id + 1] = Some(timestamp)]]

\* mutant: get_min does not wait for every CPU
GetMin_IgnoresUninitialized(mt) ==
    IF DOMAIN mt.time_slot_counts = {} THEN None
    ELSE Some((CHOOSE k \in DOMAIN mt.time_slot_counts :
                  \A j \in DOMAIN mt.time_slot_counts : k <= j) * mt.time_slot_size)

\* MinTracker::get_min
GetMin(mt) ==
    IF mt.uninitialized_cpus > 0 THEN None
    ELSE IF DOMAIN mt.time_slot_counts = {} THEN None
    ELSE Some((CHOOSE k \in DOMAIN mt.time_slot_counts :
                  \A j \in DOMAIN mt.time_slot_counts : k <= j) * mt.time_slot_size)

\* BpfTimeslotTracker::new
TimeslotNew ==
    /\ min_tracker = MinTrackerNew(TimeSlotSize, NumCpus)
    /\ last_min_slot = None
    /\ subscribers = 0
    /\ delivered = <<>>
    /\ tcall = [cpu_id |-> 0, timestamp |-> 0, res |-> "None"]

\* subscribe
Subscribe ==
    /\ subscribers < MaxSubscribers
    /\ subscribers' = subscribers + 1
    /\ UNCHANGED <<min_tracker, last_min_slot, delivered, tcall>>

\* mutant: the old and new boundaries change places
Callbacks_Swapped(n, old_timeslot, new_timeslot) ==
    [s \in 1..n |-> [subscriber |-> s, old |-> new_timeslot, new |-> old_timeslot]]

\* for callback in &self.subscribers { callback(old_timeslot, new_timeslot) }
Callbacks(n, old_timeslot, new_timeslot) ==
    [s \in 1..n |-> [subscriber |-> s, old |-> old_timeslot, new |-> new_timeslot]]

\* handle_timer_finished_processing; parse_ok is the outcome of
\* plain::from_bytes on the record's data
HandleTimerFinishedProcessing(ring_index, parse_ok, timestamp) ==
    IF ~parse_ok
    THEN /\ tcall' = [cpu_id |-> ring_index, timestamp |-> timestamp, res |-> "ParseError"]
         /\ delivered' = <<>>
         /\ UNCHANGED <<min_tracker, last_min_slot, subscribers>>
    ELSE LET u == Update(min_tracker, ring_index, timestamp) IN
         /\ tcall' = [cpu_id |-> ring_index, timestamp |-> timestamp, res |-> u.res]
         /\ min_tracker' = u.mt
         /\ UNCHANGED subscribers
         /\ IF u.res # "Ok"
            THEN /\ delivered' = <<>>
                 /\ UNCHANGED last_min_slot
            ELSE LET new_min_slot == GetMin(u.mt) IN
                 IF new_min_slot # last_min_slot
                 THEN LET old_timeslot == UnwrapOr(last_min_slot, 0)
                          new_timeslot == UnwrapOr(new_min_slot, 0)
                      IN  /\ last_min_slot' = new_min_slot
                          /\ delivered' =
                                IF new_min_slot # None \/ old_timeslot > 0
                                THEN Callbacks(subscribers, old_timeslot, new_timeslot)
                                ELSE <<>>
                 ELSE /\ delivered' = <<>>
                      /\ UNCHANGED last_min_slot

\* a TIMER_FINISHED record of any ring index (one past the last CPU
\* included), well formed or not, with any timestamp
HandleAnyTimerFinished ==
    \E ring_index \in 0..NumCpus, parse_ok \in BOOLEAN, timestamp \in Timestamps :
        HandleTimerFinishedProcessing(ring_index, parse_ok, timestamp)

----------------------------------------------------------------------------
(* TaskCollection (collector/src/task_metadata.rs) driven by BpfTaskTracker *)
(* (collector/src/bpf_task_tracker.rs)                                     *)

Pids == 1..MaxPid

Comms == 1..MaxComm

\* TaskCollection::new
TaskNew ==
    /\ tasks = <<>>
    /\ removal_queue = <<>>
    /\ freed = {}
    /\ removed = {}

\* TaskCollection::lookup
Lookup(t, pid) == IF pid \in DOMAIN t THEN Some(t[pid]) ELSE None

\* TaskCollection::add
TaskAdd(t, pid, comm) ==
    [p \in DOMAIN t \cup {pid} |-> IF p = pid THEN comm ELSE t[p]]

\* mutant: flush removes only the first queued pid
FlushRemovalsTasks_FirstOnly(t, queue) ==
    IF queue = <<>> THEN t ELSE [p \in DOMAIN t \ {Head(queue)} |-> t[p]]

\* TaskCollection::flush_removals: the tasks after draining the queue
RECURSIVE FlushRemovalsTasks(_, _)
FlushRemovalsTasks(t, queue) ==
    IF queue = <<>> THEN t
    ELSE FlushRemovalsTasks([p \in DOMAIN t \ {Head(queue)} |-> t[p]], Tail(queue))

\* handle_task_metadata
HandleTaskMetadata(parse_ok, pid, comm) ==
    /\ IF parse_ok
       THEN tasks' = TaskAdd(tasks, pid, comm)
       ELSE UNCHANGED tasks
    /\ UNCHANGED <<removal_queue, freed, removed>>

\* handle_task_free
HandleTaskFree(parse_ok, pid) ==
    /\ Len(removal_queue) < MaxQueue
    /\ IF parse_ok /\ pid \in DOMAIN tasks
       THEN /\ removal_queue' = Append(removal_queue, pid)
            /\ freed' = freed \cup {pid}
       ELSE UNCHANGED <<removal_queue, freed>>
    /\ UNCHANGED <<tasks, removed>>

\* on_new_timeslot
OnNewTimeslot ==
    /\ tasks' = FlushRemovalsTasks(tasks, removal_queue)
    /\ removal_queue' = <<>>
    /\ freed' = {}
    /\ removed' = DOMAIN tasks \ DOMAIN tasks'

HandleAnyTaskMetadata ==
    \E parse_ok \in BOOLEAN, pid \in Pids, comm \in Comms :
        HandleTaskMetadata(parse_ok, pid, comm)

HandleAnyTaskFree ==
    \E parse_ok \in BOOLEAN, pid \in Pids : HandleTaskFree(parse_ok, pid)

----------------------------------------------------------------------------
(* ParquetWriter size accounting (collector/src/parquet_writer.rs).  The   *)
(* AsyncArrowWriter is kept as the compressed sizes of its flushed row     *)
(* groups and the bytes of the row group in progress.                      *)

RECURSIVE SumSeq(_)
SumSeq(sq) == IF sq = <<>> THEN 0 ELSE Head(sq) + SumSeq(Tail(sq))

\* compressed size of a row group whose in-progress estimate was n bytes,
\* when compression saves `saved` bytes: never more than the estimate
Compressed(n, saved) == IF n > saved THEN n - saved ELSE n

\* AsyncArrowWriter::try_new_with_options
EncNew == [flushed |-> <<>>, in_progress |-> 0]

\* writer.flush(): the row group in progress becomes a flushed row group
EncFlush(w, saved) ==
    IF w.in_progress = 0 THEN w
    ELSE [flushed |-> Append(w.flushed, Compressed(w.in_progress, saved)),
          in_progress |-> 0]

\* writer.write(&batch): the batch joins the row group in progress, which is
\* flushed when it reaches max_row_group_size rows (full)
EncWrite(w, bytes, full, saved) ==
    LET w1 == [w EXCEPT !.in_progress = @ + bytes]
    IN  IF full THEN EncFlush(w1, saved) ELSE w1

\* writer.close(): the row groups of the finished file
EncClose(w, saved) == EncFlush(w, saved).flushed

WriterState ==
    [current_writer |-> current_writer,
     closed_files_size |-> closed_files_size,
     flushed_row_groups_size |-> flushed_row_groups_size,
     flushed_row_groups_count |-> flushed_row_groups_count,
     in_memory_size |-> in_memory_size,
     files |-> files]

\* is_below_quota
IsBelowQuota(cfg, st) ==
    IF cfg.storage_quota # None
    THEN LET total_size == st.closed_files_size + st.flushed_row_groups_size
                           + st.in_memory_size
         IN  ~(total_size >= cfg.storage_quota[1])
    ELSE TRUE

\* update_current_writer_size
UpdateCurrentWriterSize(st) ==
    IF st.current_writer # None
    THEN LET writer == st.current_writer[1]
             current_flushed_groups == Len(writer.flushed)
             st1 == IF current_flushed_groups # st.flushed_row_groups_count
                    THEN [st EXCEPT !.flushed_row_groups_size = SumSeq(writer.flushed),
                                    !.flushed_row_groups_count = current_flushed_groups]
                    ELSE st
         IN  [st1 EXCEPT !.in_memory_size = writer.in_progress]
    ELSE [st EXCEPT !.flushed_row_groups_size = 0,
                    !.flushed_row_groups_count = 0,
                    !.in_memory_size = 0]

\* mutant: create_new_file does not look at the quota
CreateNewFile_NoQuotaCheck(cfg, st) ==
    IF st.current_writer # None THEN st
    ELSE UpdateCurrentWriterSize([st EXCEPT !.current_writer = Some(EncNew)])

\* create_new_file
CreateNewFile(cfg, st) ==
    IF st.current_writer # None THEN st
    ELSE IF ~IsBelowQuota(cfg, st) THEN st
    ELSE UpdateCurrentWriterSize([st EXCEPT !.current_writer = Some(EncNew)])

\* close_writer
CloseWriter(st, saved) ==
    LET st1 == IF st.current_writer # None
               THEN LET row_groups == EncClose(st.current_writer[1], saved)
                    IN  [st EXCEPT !.current_writer = None,
                                   !.closed_files_size = @ + SumSeq(row_groups),
                                   !.files = Append(@, SumSeq(row_groups))]
               ELSE st
    IN  UpdateCurrentWriterSize(st1)

\* flush
FlushWriter(st, saved) ==
    IF st.current_writer # None
    THEN UpdateCurrentWriterSize(
            [st EXCEPT !.current_writer = Some(EncFlush(st.current_writer[1], saved))])
    ELSE st

\* mutant: the file is never rotated on size
MaybeRotateFile_Never(cfg, st, saved) == st

\* maybe_rotate_file
MaybeRotateFile(cfg, st, saved) ==
    LET current_file_size == st.flushed_row_groups_size + st.in_memory_size
    IN  IF current_file_size >= cfg.file_size_limit
        THEN CreateNewFile(cfg, CloseWriter(st, saved))
        ELSE st

\* write: the writer afterwards
WriteBatch(cfg, st, bytes, full, saved) ==
    IF ~IsBelowQuota(cfg, st) THEN st
    ELSE IF st.current_writer # None
    THEN LET st1 == UpdateCurrentWriterSize(
                       [st EXCEPT !.current_writer =
                           Some(EncWrite(st.current_writer[1], bytes, full, saved))])
         IN  IF ~IsBelowQuota(cfg, st1)
             THEN LET st2 == CloseWriter(st1, saved)
                  IN  IF cfg.storage_quota # None
                      THEN [st2 EXCEPT !.closed_files_size = cfg.storage_quota[1]]
                      ELSE st2
             ELSE LET st3 == IF st1.in_memory_size >= cfg.buffer_size
                             THEN FlushWriter(st1, saved)
                             ELSE st1
                  IN  MaybeRotateFile(cfg, st3, saved)
    ELSE st

SetWriterState(st) ==
    /\ current_writer' = st.current_writer
    /\ closed_files_size' = st.closed_files_size
    /\ flushed_row_groups_size' = st.flushed_row_groups_size
    /\ flushed_row_groups_count' = st.flushed_row_groups_count
    /\ in_memory_size' = st.in_memory_size
    /\ files' = st.files

Configs ==
    [buffer_size : 1..MaxBufferSize,
     file_size_limit : 1..MaxFileSizeLimit,
     storage_quota : {None} \cup {Some(q) : q \in 1..MaxQuota}]

\* ParquetWriter::new with configuration cfg
WriterNew(cfg) ==
    LET st == CreateNewFile(cfg,
                 [current_writer |-> None, closed_files_size |-> 0,
                  flushed_row_groups_size |-> 0, flushed_row_groups_count |-> 0,
                  in_memory_size |-> 0, files |-> <<>>])
    IN  /\ config = cfg
        /\ current_writer = st.current_writer
        /\ closed_files_size = st.closed_files_size
        /\ flushed_row_groups_size = st.flushed_row_groups_size
        /\ flushed_row_groups_count = st.flushed_row_groups_count
        /\ in_memory_size = st.in_memory_size
        /\ files = st.files
        /\ nbatches = 0
        /\ wlast = "new"

\* result of write, from its returns
WriterWriteResult ==
    IF ~IsBelowQuota(config, WriterState) THEN "Ok"
    ELSE IF current_writer # None THEN "Ok"
    ELSE "NoWriterAvailable"

\* write
WriterWrite(bytes, full, saved) ==
    /\ nbatches < MaxBatches
    /\ nbatches' = nbatches + 1
    /\ SetWriterState(WriteBatch(config, WriterState, bytes, full, saved))
    /\ wlast' = "write"
    /\ UNCHANGED config

\* flush
WriterFlush(saved) ==
    /\ SetWriterState(FlushWriter(WriterState, saved))
    /\ wlast' = "flush"
    /\ UNCHANGED <<config, nbatches>>

\* rotate
WriterRotate(saved) ==
    /\ Len(files) < MaxFiles
    /\ SetWriterState(CreateNewFile(config, CloseWriter(WriterState, saved)))
    /\ wlast' = "rotate"
    /\ UNCHANGED <<config, nbatches>>

WriterWriteAny ==
    \E bytes \in 1..MaxBatchBytes, full \in BOOLEAN, saved \in 0..MaxSaved :
        WriterWrite(bytes, full, saved)

WriterFlushAny == \E saved \in 0..MaxSaved : WriterFlush(saved)

WriterRotateAny == \E saved \in 0..MaxSaved : WriterRotate(saved)

----------------------------------------------------------------------------
(* task_completion_handler.rs : task_completion_handler *)

Handlers == 1 .. NumHandlers

Tokens == 1 .. NumTokens

\* the ways the spawned future ends: Ok(Ok(_)), Ok(Err(error)), Err(join_error)
Outcomes == {"Ok", "Err", "Panicked"}

HandlerNew ==
    /\ task_outcome = [h \in Handlers |-> "unspawned"]
    /\ handler_pc = [h \in Handlers |-> "start"]
    /\ token_of \in [Handlers -> Tokens]
    /\ cancelled = {}
    /\ cancelled_by = [t \in Tokens |-> {}]
    /\ logs = [h \in Handlers |-> <<>>]

\* the handler at rest, for the specifications of the other components
HandlerIdle ==
    /\ HandlerNew
    /\ token_of = [h \in Handlers |-> 1]

HandleJoin_CancelOnOkOnly(outcome) ==
    CASE outcome = "Ok" -> [level |-> "debug", cancel |-> TRUE]
      [] outcome = "Err" -> [level |-> "error", cancel |-> FALSE]
      [] OTHER -> [level |-> "error", cancel |-> FALSE]

\* match handle.await { .. } followed by token.cancel()
HandleJoin(outcome) ==
    CASE outcome = "Ok" -> [level |-> "debug", cancel |-> TRUE]
      [] outcome = "Err" -> [level |-> "error", cancel |-> TRUE]
      [] OTHER -> [level |-> "error", cancel |-> TRUE]

\* let handle = tokio::spawn(future); the handler then waits on handle
HandlerSpawn(h) ==
    /\ handler_pc[h] = "start"
    /\ handler_pc' = [handler_pc EXCEPT ![h] = "awaiting"]
    /\ task_outcome' = [task_outcome EXCEPT ![h] = "running"]
    /\ UNCHANGED <<token_of, cancelled, cancelled_by, logs>>

\* the spawned future returns Ok, returns Err, or panics
TaskCompletes(h, outcome) ==
    /\ task_outcome[h] = "running"
    /\ task_outcome' = [task_outcome EXCEPT ![h] = outcome]
    /\ UNCHANGED <<handler_pc, token_of, cancelled, cancelled_by, logs>>

\* handle.await is ready: the match arm logs, the token is cancelled, the handler returns
HandlerResume(h) ==
    /\ handler_pc[h] = "awaiting"
    /\ task_outcome[h] \in Outcomes
    /\ LET r == HandleJoin(task_outcome[h])
           t == token_of[h]
       IN /\ logs' = [logs EXCEPT ![h] = Append(@, r.level)]
          /\ cancelled' = IF r.cancel THEN cancelled \cup {t} ELSE cancelled
          /\ cancelled_by' = IF r.cancel THEN [cancelled_by EXCEPT ![t] = @ \cup {h}]
                                         ELSE cancelled_by
    /\ handler_pc' = [handler_pc EXCEPT ![h] = "returned"]
    /\ UNCHANGED <<task_outcome, token_of>>

HandlerSpawnAny == \E h \in Handlers : HandlerSpawn(h)

TaskCompletesAny == \E h \in Handlers, outcome \in Outcomes : TaskCompletes(h, outcome)

HandlerResumeAny == \E h \in Handlers : HandlerResume(h)

----------------------------------------------------------------------------
(* dispatcher.rs : Dispatcher *)

MessageTypes == {MSG_TYPE_FOO, MSG_TYPE_BAR}

\* Dispatcher::new; a message type without an entry in the HashMap has no callbacks
DispatcherNew ==
    /\ sample_subscribers = [t \in MessageTypes |-> <<>>]
    /\ lost_subscribers = <<>>
    /\ stats = [samples_processed |-> 0, lost_events_processed |-> 0,
                callback_errors |-> 0, dropped_messages |-> 0]
    /\ calls = <<>>
    /\ dlast = "new"

\* callbacks are numbered in the order they were registered
NumCallbacks ==
    Len(lost_subscribers) + Len(sample_subscribers[MSG_TYPE_FOO])
        + Len(sample_subscribers[MSG_TYPE_BAR])

\* subscribe
DispatcherSubscribe(message_type) ==
    /\ NumCallbacks < MaxCallbacks
    /\ sample_subscribers' = [sample_subscribers EXCEPT
                                ![message_type] = Append(@, NumCallbacks + 1)]
    /\ UNCHANGED <<lost_subscribers, stats, calls, dlast>>

\* subscribe_lost_samples
SubscribeLostSamples ==
    /\ NumCallbacks < MaxCallbacks
    /\ lost_subscribers' = Append(lost_subscribers, NumCallbacks + 1)
    /\ UNCHANGED <<sample_subscribers, stats, calls, dlast>>

\* for subscriber in subscribers { subscriber(ring_index, &event_data) }
Invoke(subs, ring_index, event_data) ==
    [j \in 1..Len(subs) |->
        [subscriber |-> subs[j], ring_index |-> ring_index, data |-> event_data]]

\* header.type_ of the SampleHeader at the start of the event data
HeaderType(event_data) == FromLeBytes(SubSeq(event_data, 5, 8))

\* mutant: a sample is handed to the callbacks of every message type
SampleCallbacks_AllTypes(registry, message_type) ==
    registry[MSG_TYPE_FOO] \o registry[MSG_TYPE_BAR]

\* self.sample_subscribers.get_mut(&header.type_)
SampleCallbacks(registry, message_type) ==
    IF message_type \in DOMAIN registry THEN registry[message_type] ELSE <<>>

\* mutant: a record of an unknown type is popped without being counted
DispatchRecord_UnknownUncounted(ring_index, event_type, event_data) ==
    IF event_type = PERF_RECORD_SAMPLE
    THEN IF Len(event_data) < SampleHeaderSize
         THEN [err |-> "InvalidFormat", calls |-> <<>>, stats |-> stats]
         ELSE LET subs == SampleCallbacks(sample_subscribers, HeaderType(event_data))
              IN  IF subs # <<>>
                  THEN [err |-> "Ok",
                        calls |-> Invoke(subs, ring_index, event_data),
                        stats |-> [stats EXCEPT !.samples_processed = @ + 1]]
                  ELSE [err |-> "Ok", calls |-> <<>>,
                        stats |-> [stats EXCEPT !.dropped_messages = @ + 1]]
    ELSE IF event_type = PERF_RECORD_LOST
    THEN [err |-> "Ok",
          calls |-> Invoke(lost_subscribers, ring_index, event_data),
          stats |-> [stats EXCEPT !.lost_events_processed = @ + 1]]
    ELSE [err |-> "Ok", calls |-> <<>>, stats |-> stats]

\* the match of dispatch on the type of the record: the error returned, or
\* the callbacks invoked and the counters after them
DispatchRecord(ring_index, event_type, event_data) ==
    IF event_type = PERF_RECORD_SAMPLE
    THEN IF Len(event_data) < SampleHeaderSize
         THEN [err |-> "InvalidFormat", calls |-> <<>>, stats |-> stats]
         ELSE LET subs == SampleCallbacks(sample_subscribers, HeaderType(event_data))
              IN  IF subs # <<>>
                  THEN [err |-> "Ok",
                        calls |-> Invoke(subs, ring_index, event_data),
                        stats |-> [stats EXCEPT !.samples_processed = @ + 1]]
                  ELSE [err |-> "Ok", calls |-> <<>>,
                        stats |-> [stats EXCEPT !.dropped_messages = @ + 1]]
    ELSE IF event_type = PERF_RECORD_LOST
    THEN [err |-> "Ok",
          calls |-> Invoke(lost_subscribers, ring_index, event_data),
          stats |-> [stats EXCEPT !.lost_events_processed = @ + 1]]
    ELSE [err |-> "Ok", calls |-> <<>>,
          stats |-> [stats EXCEPT !.dropped_messages = @ + 1]]

\* dispatch: BinaryHeap::peek in current_ring and BinaryHeap::pop in pop
\* give the same entry, the one at position k
Dispatch ==
    IF IsEmpty
    THEN /\ dlast' = "Ok"
         /\ calls' = <<>>
         /\ UNCHANGED <<sample_subscribers, lost_subscribers, stats>>
         /\ UNCHANGED readerVars
    ELSE \E k \in HeapTop(heap) :
         LET ring_index == heap[k].ring_index
             ring == rings[ring_index]
             size == PeekSize(ring.mem, ring.cons)
         IN  IF size.err # "Ok"
             THEN /\ dlast' = "RingError"
                  /\ calls' = <<>>
                  /\ UNCHANGED <<sample_subscribers, lost_subscribers, stats>>
                  /\ UNCHANGED readerVars
             ELSE LET event_data == PeekCopy(ring.mem, ring.cons, size.size, 0).bytes
                      d == DispatchRecord(ring_index, PeekType(ring.mem, ring.cons), event_data)
                  IN  /\ calls' = d.calls
                      /\ stats' = d.stats
                      /\ UNCHANGED <<sample_subscribers, lost_subscribers>>
                      /\ IF d.err # "Ok"
                         THEN /\ dlast' = d.err
                              /\ UNCHANGED readerVars
                         ELSE /\ PopEntry(k)
                              /\ dlast' = IF last'.res = "Ok" THEN "Ok" ELSE "ReaderError"
                              /\ UNCHANGED <<active, nrecords, produced>>

DispatcherSubscribeAny == \E message_type \in MessageTypes : DispatcherSubscribe(message_type)

\* the records of the dispatcher's producers: samples of both message
\* types, a lost record, a sample holding the message type only, and a
\* record of a type dispatch has no arm for (1, PERF_RECORD_MMAP)
TypedSample(message_type, timestamp) == LeBytes(message_type, 4) \o LeBytes(timestamp, 8)

DispatcherRecords ==
    {[type |-> PERF_RECORD_SAMPLE, data |-> TypedSample(MSG_TYPE_FOO, 1)],
     [type |-> PERF_RECORD_SAMPLE, data |-> TypedSample(MSG_TYPE_BAR, MaxTs)],
     [type |-> PERF_RECORD_LOST, data |-> LostPayload],
     [type |-> PERF_RECORD_SAMPLE, data |-> LeBytes(MSG_TYPE_FOO, 4)],
     [type |-> 1, data |-> LeBytes(0, 8)]}

DispatcherProduceAny ==
    /\ nrecords < MaxDispatcherRecords
    /\ \E i \in 1..Len(rings), rec \in DispatcherRecords : Produce(i, rec)

----------------------------------------------------------------------------
(* bpf_perf_to_timeslot.rs : BpfPerfToTimeslot, with the dispatcher, the
   timeslot tracker and one ring per CPU as PerfEventProcessor wires them *)

\* Metric::from_deltas
MetricFromDeltas(cycles, instructions, llc_misses, cache_references, time_ns) ==
    [cycles |-> cycles, instructions |-> instructions, llc_misses |-> llc_misses,
     cache_references |-> cache_references, time_ns |-> time_ns]

\* mutant: add keeps the later measurement only
MetricAdd_Replaces(m, other) == other

\* Metric::add
MetricAdd(m, other) ==
    [cycles |-> m.cycles + other.cycles,
     instructions |-> m.instructions + other.instructions,
     llc_misses |-> m.llc_misses + other.llc_misses,
     cache_references |-> m.cache_references + other.cache_references,
     time_ns |-> m.time_ns + other.time_ns]

\* TaskData::new
TaskDataNew(metadata, metrics) == [metadata |-> metadata, metrics |-> metrics]

\* TimeslotData::new(start_timestamp); updates counts the calls of update
TimeslotDataNew(start_timestamp) ==
    [start_timestamp |-> start_timestamp, updates |-> 0, tasks |-> <<>>]

\* mutant: update stores the metadata of the latest sample
TimeslotDataUpdate_RefreshesMetadata(td, pid, metadata, metrics) ==
    IF pid \in DOMAIN td.tasks
    THEN [td EXCEPT !.tasks[pid] = TaskDataNew(metadata, MetricAdd(@.metrics, metrics)),
                    !.updates = @ + 1]
    ELSE [td EXCEPT !.tasks = [p \in DOMAIN td.tasks \cup {pid} |->
                                  IF p = pid THEN TaskDataNew(metadata, metrics)
                                  ELSE td.tasks[p]],
                    !.updates = @ + 1]

\* TimeslotData::update
TimeslotDataUpdate(td, pid, metadata, metrics) ==
    IF pid \in DOMAIN td.tasks
    THEN [td EXCEPT !.tasks[pid].metrics = MetricAdd(@, metrics), !.updates = @ + 1]
    ELSE [td EXCEPT !.tasks = [p \in DOMAIN td.tasks \cup {pid} |->
                                  IF p = pid THEN TaskDataNew(metadata, metrics)
                                  ELSE td.tasks[p]],
                    !.updates = @ + 1]

\* BpfPerfToTimeslot::new
PerfToTimeslotNew ==
    /\ current_timeslot = TimeslotDataNew(0)
    /\ timeslot_tx = <<>>
    /\ error_counter = 0
    /\ perf_delivered = <<>>
    /\ announced = {}

\* the Reader of the perf map: one ring per CPU
CollectorReaderNew ==
    /\ rings = [i \in 1..NumCpus |-> NewRing]
    /\ heap = <<>>
    /\ in_heap = [i \in 1..NumCpus |-> FALSE]
    /\ active = FALSE
    /\ last = [op |-> "new", res |-> "Ok"]
    /\ popped = <<>>
    /\ nrecords = 0
    /\ produced = [i \in 1..NumCpus |-> <<>>]
    /\ consumed = [i \in 1..NumCpus |-> <<>>]

\* callbacks of the collector's dispatcher: BpfTimeslotTracker::new
\* subscribes handle_timer_finished_processing (1), BpfPerfToTimeslot::new
\* subscribes handle_perf_measurement (2)
TimerCallback == 1

PerfCallback == 2

CollectorDispatcherNew ==
    /\ sample_subscribers =
          [t \in {MSG_TYPE_PERF_MEASUREMENT, MSG_TYPE_TIMER_FINISHED_PROCESSING} |->
              IF t = MSG_TYPE_TIMER_FINISHED_PROCESSING THEN <<TimerCallback>>
              ELSE <<PerfCallback>>]
    /\ lost_subscribers = <<>>
    /\ stats = [samples_processed |-> 0, lost_events_processed |-> 0,
                callback_errors |-> 0, dropped_messages |-> 0]
    /\ calls = <<>>
    /\ dlast = "new"

\* the timeslot tracker with its two subscribers, BpfTaskTracker::on_new_timeslot
\* and then BpfPerfToTimeslot::on_new_timeslot
CollectorTimeslotNew ==
    /\ min_tracker = MinTrackerNew(TimeSlotSize, NumCpus)
    /\ last_min_slot = None
    /\ subscribers = 2
    /\ delivered = <<>>
    /\ tcall = [cpu_id |-> 0, timestamp |-> 0, res |-> "None"]

\* event.header.timestamp of the message in data
MessageTimestamp(data) == FromLeBytes(SubSeq(data, 9, 12))

\* plain::from_bytes(data): the message is modelled by its SampleHeader
ParseOk(data) == Len(data) >= SampleHeaderSize

\* handle_perf_measurement.  The bytes of the model carry the header of the
\* message; event stands for its other fields: event.pid and the Metric made
\* of its deltas.  perf_delivered keeps what the call saw.
HandlePerfMeasurement(ring_index, data, event) ==
    LET metadata == Lookup(tasks, event.pid)
    IN  /\ IF ParseOk(data)
           THEN current_timeslot' =
                   TimeslotDataUpdate(current_timeslot, event.pid, metadata, event.metric)
           ELSE UNCHANGED current_timeslot
        /\ perf_delivered' = Append(perf_delivered,
                [timestamp |-> IF ParseOk(data) THEN MessageTimestamp(data) ELSE 0,
                 ring_index |-> ring_index,
                 timeslot |-> current_timeslot.start_timestamp,
                 parsed |-> ParseOk(data), pid |-> event.pid, metric |-> event.metric,
                 metadata |-> metadata])
        /\ UNCHANGED <<timeslot_tx, error_counter, announced>>

\* the measurements of SpecCollector, which is about boundaries and order:
\* one task, one cycle and one instruction per measurement
CollectorEvents == {[pid |-> 1, metric |-> MetricFromDeltas(1, 1, 0, 0, 1)]}

\* on_new_timeslot; sent is the outcome of try_send and report that of the
\* one-second test on last_error_report
OnNewTimeslotPerf(new_timeslot, sent, report) ==
    /\ current_timeslot' = TimeslotDataNew(new_timeslot)
    /\ IF sent
       THEN /\ timeslot_tx' = Append(timeslot_tx, current_timeslot)
            /\ UNCHANGED error_counter
       ELSE /\ UNCHANGED timeslot_tx
            /\ error_counter' = IF report THEN 0 ELSE error_counter + 1

\* what the callbacks invoked by a dispatch do
CallbackEffects ==
    IF calls' # <<>> /\ calls'[1].subscriber = TimerCallback
    THEN /\ HandleTimerFinishedProcessing(calls'[1].ring_index - 1, ParseOk(calls'[1].data),
                                          MessageTimestamp(calls'[1].data))
         /\ UNCHANGED perf_delivered
         /\ IF delivered' # <<>>
            THEN /\ \E sent \in BOOLEAN, report \in BOOLEAN :
                      OnNewTimeslotPerf(delivered'[Len(delivered')].new, sent, report)
                 /\ announced' = announced \cup {delivered'[Len(delivered')].new}
            ELSE UNCHANGED <<current_timeslot, timeslot_tx, error_counter, announced>>
    ELSE IF calls' # <<>> /\ calls'[1].subscriber = PerfCallback
    THEN /\ \E event \in CollectorEvents :
                HandlePerfMeasurement(calls'[1].ring_index - 1, calls'[1].data, event)
         /\ UNCHANGED timeslotVars
    ELSE UNCHANGED <<timeslotVars, perfVars>>

\* one dispatch of the collector's dispatcher together with its callbacks
CollectorDispatch ==
    /\ Dispatch
    /\ CallbackEffects

\* the producer of a CPU (the BPF programs): timestamps do not decrease on a
\* CPU, and a CPU emits one TIMER_FINISHED per time slot
LastTimestamp(recs) ==
    IF recs = <<>> THEN 0 ELSE MessageTimestamp(LeBytes(0, 4) \o recs[Len(recs)].data)

TimerSlots(recs) ==
    {MessageTimestamp(LeBytes(0, 4) \o recs[k].data) \div TimeSlotSize :
        k \in {j \in 1..Len(recs) :
                 FromLeBytes(SubSeq(recs[j].data, 1, 4)) = MSG_TYPE_TIMER_FINISHED_PROCESSING}}

\* the clock readings of the producers: half time slots from the first
\* whole slot on
CollectorTimestamps == {k * (TimeSlotSize \div 2) : k \in 2..(MaxCollectorTicks + 1)}

CpuProduce(i, message_type, timestamp) ==
    /\ timestamp >= LastTimestamp(produced[i])
    /\ message_type = MSG_TYPE_TIMER_FINISHED_PROCESSING
          => (timestamp \div TimeSlotSize) \notin TimerSlots(produced[i])
    /\ Produce(i, [type |-> PERF_RECORD_SAMPLE, data |-> TypedSample(message_type, timestamp)])

CpuProduceAny ==
    \E i \in 1..NumCpus, timestamp \in CollectorTimestamps,
       message_type \in {MSG_TYPE_PERF_MEASUREMENT, MSG_TYPE_TIMER_FINISHED_PROCESSING} :
        CpuProduce(i, message_type, timestamp)

----------------------------------------------------------------------------
(* bpf/src/sync_timer.rs : initialize_sync_timer *)

\* the modes in the order initialize_sync_timer tries them
Modes == <<"MODERN", "INTERMEDIATE", "LEGACY">>

\* 0 .. num_possible_cpus - 1
Cpus == 0 .. (NumCpus - 1)

\* return values of the timer-init program (sync_timer_init_error and others)
ReturnCodes ==
    {"SUCCESS", "MAP_UPDATE_FAILED", "MAP_LOOKUP_FAILED", "TIMER_INIT_FAILED",
     "TIMER_SET_CALLBACK_FAILED", "TIMER_START_FAILED", "UNKNOWN"}

NoResult == [err |-> "None", failed_cores |-> <<>>, total_count |-> 0]

OkResult == [err |-> "Ok", failed_cores |-> <<>>, total_count |-> 0]

ErrResult(name) == [err |-> name, failed_cores |-> <<>>, total_count |-> 0]

\* the state at the call of initialize_sync_timer, about to try the first mode
SyncTimerNew ==
    /\ sync_pc = "with_mode"
    /\ mode = 1
    /\ next_cpu = 0
    /\ failed_cores = <<>>
    /\ thread_affinity = Cpus
    /\ original_cpu_set = Cpus
    /\ timer_migration \in {0, 1}
    /\ original_migration = None
    /\ invoked = <<>>
    /\ sweep_result = NoResult
    /\ attempts = <<>>
    /\ sync_result = "None"

\* the sync timer at rest, for the specifications of the other components
SyncTimerIdle ==
    /\ SyncTimerNew
    /\ timer_migration = 1

\* the match of initialize_sync_timer on the result of
\* initialize_timers_with_mode: return, or fall back to the next mode
\* mutant: no fallback after the second mode
FallbackDecision_TwoModes(err, m) ==
    IF err = "Ok" THEN "Ok"
    ELSE IF m >= 2 THEN "AllMethodsFailed"
    ELSE "fallback"

\* what initialize_sync_timer does with the result of its m-th attempt
FallbackDecision(err, m) ==
    IF err = "Ok" THEN "Ok"
    ELSE IF m = Len(Modes) THEN "AllMethodsFailed"
    ELSE "fallback"

\* the attempt is archived with its mode, its result, the number of runs of
\* the program, the sysctl value it had to write back (None when it changed
\* nothing) and how the write-back went
AttemptDone(result, runs, writeback) ==
    /\ attempts' = Append(attempts,
            [mode |-> Modes[mode], result |-> result, runs |-> runs,
             original_migration |-> original_migration, writeback |-> writeback])
    /\ LET d == FallbackDecision(result.err, mode)
       IN  IF d = "fallback"
           THEN /\ mode' = mode + 1
                /\ sync_pc' = "with_mode"
                /\ UNCHANGED sync_result
           ELSE /\ sync_result' = d
                /\ sync_pc' = "returned"
                /\ UNCHANGED mode

\* initialize_timers_with_mode up to the sweep: read is the outcome of
\* read_timer_migration_sysctl, write_ok that of write_timer_migration_sysctl(0)
WithMode(read, write_ok) ==
    /\ sync_pc = "with_mode"
    /\ UNCHANGED <<next_cpu, thread_affinity, original_cpu_set>>
    /\ invoked' = <<>>
    /\ failed_cores' = <<>>
    /\ LET needs_sysctl == Modes[mode] \in {"INTERMEDIATE", "LEGACY"}
           early == IF ~needs_sysctl THEN "Ok"
                    ELSE IF read # "Ok" THEN read
                    ELSE IF timer_migration # 0 /\ ~write_ok THEN "SysctlWriteFailed"
                    ELSE "Ok"
       IN  IF early # "Ok"
           THEN /\ sweep_result' = ErrResult(early)
                /\ AttemptDone(ErrResult(early), 0, "none")
                /\ UNCHANGED <<timer_migration, original_migration>>
           ELSE /\ sweep_result' = NoResult
                /\ sync_pc' = "all_cores"
                /\ UNCHANGED <<mode, attempts, sync_result>>
                /\ IF needs_sysctl /\ timer_migration # 0
                   THEN /\ timer_migration' = 0
                        /\ original_migration' = Some(timer_migration)
                   ELSE /\ UNCHANGED timer_migration
                        /\ original_migration' = None

\* initialize_timers_on_all_cores up to its loop
AllCoresBegin(getaffinity_ok, count_ok) ==
    /\ sync_pc = "all_cores"
    /\ UNCHANGED <<mode, thread_affinity, timer_migration, original_migration,
                   attempts, sync_result, invoked, failed_cores>>
    /\ next_cpu' = 0
    /\ IF ~getaffinity_ok
       THEN /\ sweep_result' = ErrResult("AffinityGetFailed")
            /\ sync_pc' = "restore_sysctl"
            /\ UNCHANGED original_cpu_set
       ELSE /\ original_cpu_set' = thread_affinity
            /\ IF ~count_ok
               THEN /\ sweep_result' = ErrResult("CpuCountFailed")
                    /\ sync_pc' = "restore_sysctl"
               ELSE /\ sweep_result' = NoResult
                    /\ sync_pc' = "core"

\* mutant: the program is run even when the thread is on another CPU
CpuPinFailed_Ignored(current_cpu, cpu) == FALSE

\* current_cpu as usize != next_cpu
CpuPinFailed(current_cpu, cpu) == current_cpu # cpu

\* initialize_timer_on_core: set_ok, affinity_ok and getcpu_ok are the
\* outcomes of cpu_set.set, sched_setaffinity and sched_getcpu, current_cpu
\* the CPU sched_getcpu reports, run the outcome of test_run ("Failed" or a
\* return code).  Gives the error, whether the program was run, and the
\* affinity afterwards.
InitializeTimerOnCore(cpu, set_ok, affinity_ok, getcpu_ok, current_cpu, run) ==
    IF ~set_ok
    THEN [err |-> "CpuSetFailed", ran |-> FALSE, affinity |-> thread_affinity]
    ELSE IF ~affinity_ok
    THEN [err |-> "AffinitySetFailed", ran |-> FALSE, affinity |-> thread_affinity]
    ELSE IF ~getcpu_ok
    THEN [err |-> "CurrentCpuFailed", ran |-> FALSE, affinity |-> {cpu}]
    ELSE IF CpuPinFailed(current_cpu, cpu)
    THEN [err |-> "CpuPinFailed", ran |-> FALSE, affinity |-> {cpu}]
    ELSE [err |-> CASE run = "Failed" -> "BpfProgramFailed"
                    [] run = "SUCCESS" -> "Ok"
                    [] run = "MAP_UPDATE_FAILED" -> "MapUpdateFailed"
                    [] run = "MAP_LOOKUP_FAILED" -> "MapLookupFailed"
                    [] run = "TIMER_INIT_FAILED" -> "TimerInitFailed"
                    [] run = "TIMER_SET_CALLBACK_FAILED" -> "TimerSetCallbackFailed"
                    [] run = "TIMER_START_FAILED" -> "TimerStartFailed"
                    [] OTHER -> "UnknownBpfError",
          ran |-> TRUE, affinity |-> {cpu}]

\* one iteration of the loop of initialize_timers_on_all_cores
OnCore(set_ok, affinity_ok, getcpu_ok, current_cpu, run) ==
    /\ sync_pc = "core"
    /\ next_cpu < NumCpus
    /\ LET r == InitializeTimerOnCore(next_cpu, set_ok, affinity_ok, getcpu_ok, current_cpu, run)
       IN  /\ thread_affinity' = r.affinity
           /\ failed_cores' = IF r.err # "Ok" THEN Append(failed_cores, next_cpu)
                                               ELSE failed_cores
           /\ invoked' = IF r.ran
                         THEN Append(invoked, [cpu_id |-> next_cpu, affinity |-> r.affinity,
                                               current_cpu |-> current_cpu,
                                               mode |-> Modes[mode], success |-> (run = "SUCCESS")])
                         ELSE invoked
    /\ next_cpu' = next_cpu + 1
    /\ sync_pc' = IF next_cpu + 1 < NumCpus THEN "core" ELSE "restore_affinity"
    /\ UNCHANGED <<mode, original_cpu_set, timer_migration, original_migration,
                   sweep_result, attempts, sync_result>>

\* the end of initialize_timers_on_all_cores: the outcome of restoring the
\* affinity, then the test of failed_cores
SweepResult(failed, restore_ok, total_count) ==
    IF ~restore_ok THEN ErrResult("AffinityRestoreFailed")
    ELSE IF failed # <<>>
    THEN [err |-> "MultipleFailures", failed_cores |-> failed, total_count |-> total_count]
    ELSE OkResult

\* mutant: the affinity is put back only after a sweep without failures
RestoreAffinity_OnlyOnSuccess(restore_ok) ==
    /\ sync_pc = "restore_affinity"
    /\ thread_affinity' = IF restore_ok /\ failed_cores = <<>>
                          THEN original_cpu_set ELSE thread_affinity
    /\ sweep_result' = SweepResult(failed_cores, restore_ok, NumCpus)
    /\ sync_pc' = "restore_sysctl"
    /\ UNCHANGED <<mode, next_cpu, failed_cores, original_cpu_set, timer_migration,
                   original_migration, invoked, attempts, sync_result>>

RestoreAffinity(restore_ok) ==
    /\ sync_pc = "restore_affinity"
    /\ thread_affinity' = IF restore_ok THEN original_cpu_set ELSE thread_affinity
    /\ sweep_result' = SweepResult(failed_cores, restore_ok, NumCpus)
    /\ sync_pc' = "restore_sysctl"
    /\ UNCHANGED <<mode, next_cpu, failed_cores, original_cpu_set, timer_migration,
                   original_migration, invoked, attempts, sync_result>>

\* the end of initialize_timers_with_mode: the sysctl is written back when
\* it was changed, a failure of that write is only logged; then the match
\* of initialize_sync_timer
\* mutant: a failed write-back fails the attempt
RestoreSysctl_FailureFails(write_ok) ==
    /\ sync_pc = "restore_sysctl"
    /\ timer_migration' = IF original_migration # None /\ write_ok
                          THEN original_migration[1] ELSE timer_migration
    /\ original_migration' = None
    /\ AttemptDone(IF original_migration # None /\ ~write_ok
                   THEN ErrResult("SysctlWriteFailed") ELSE sweep_result,
                   Len(invoked),
                   IF original_migration = None THEN "none"
                   ELSE IF write_ok THEN "ok" ELSE "failed")
    /\ UNCHANGED <<next_cpu, failed_cores, thread_affinity, original_cpu_set, invoked,
                   sweep_result>>

RestoreSysctl(write_ok) ==
    /\ sync_pc = "restore_sysctl"
    /\ timer_migration' = IF original_migration # None /\ write_ok
                          THEN original_migration[1] ELSE timer_migration
    /\ original_migration' = None
    /\ AttemptDone(sweep_result, Len(invoked),
                   IF original_migration = None THEN "none"
                   ELSE IF write_ok THEN "ok" ELSE "failed")
    /\ UNCHANGED <<next_cpu, failed_cores, thread_affinity, original_cpu_set, invoked,
                   sweep_result>>

WithModeAny ==
    \E read \in {"Ok", "SysctlReadFailed", "SysctlParseFailed"}, write_ok \in BOOLEAN :
        WithMode(read, write_ok)

AllCoresBeginAny == \E getaffinity_ok \in BOOLEAN, count_ok \in BOOLEAN :
    AllCoresBegin(getaffinity_ok, count_ok)

OnCoreAny ==
    \E set_ok \in BOOLEAN, affinity_ok \in BOOLEAN, getcpu_ok \in BOOLEAN,
       current_cpu \in Cpus, run \in ReturnCodes \cup {"Failed"} :
        OnCore(set_ok, affinity_ok, getcpu_ok, current_cpu, run)

RestoreAffinityAny == \E restore_ok \in BOOLEAN : RestoreAffinity(restore_ok)

RestoreSysctlAny == \E write_ok \in BOOLEAN : RestoreSysctl(write_ok)

----------------------------------------------------------------------------
(* collector/src/main.rs : main, and collector/src/parquet_writer_task.rs *)

\* what ends the monitoring task's loop cleanly
Signals == {"SIGTERM", "SIGINT", "timeout"}

\* outcomes of an operation of the ParquetWriter inside the task
IoOutcomes == {"Ok", "Err", "Panicked"}

\* the process after main has spawned the monitoring task (main.rs:401)
MainNew ==
    /\ main_pc = "polling"
    /\ monitor_pc = "select"
    /\ monitor_result = "None"
    /\ shutdown_tx = "unsent"
    /\ bpf_error_tx = "unsent"
    /\ writer_pc = "loop"
    /\ writer_result = "None"
    /\ shutdown_signal = FALSE
    /\ channel = <<>>
    /\ rotate_channel = 0
    /\ items_written = <<>>
    /\ closes = 0
    /\ exit_status = "running"
    /\ next_item = 0
    /\ poll_last = "None"
    /\ queued_at_shutdown = <<>>
    /\ io_errors = 0
    /\ rotate_requests = 0

Running == exit_status = "running"

\* object_writer_sender.try_send(timeslot): queued, or refused when the
\* channel is full or its receiver is gone
TrySend(queue, item, receiver_alive) ==
    IF receiver_alive /\ Len(queue) < ChannelCapacity THEN Append(queue, item) ELSE queue

\* main.rs:513-518: the monitoring task's Result is not looked at (only a
\* JoinError is logged) and main returns Ok(())
MainExitStatus(result) == "success"

\* the head of the poll loop, main.rs:493-497: shutdown_rx.try_recv() is
\* Ok only when the value was sent; with the sender dropped it is an Err
PollLoopCheck ==
    /\ Running
    /\ main_pc = "polling"
    /\ main_pc' = IF shutdown_tx = "sent" THEN "joining" ELSE "poll_events"
    /\ UNCHANGED <<monitor_pc, monitor_result, shutdown_tx, bpf_error_tx, writer_pc,
                   writer_result, shutdown_signal, channel, rotate_channel, items_written,
                   closes, exit_status, next_item, poll_last, queued_at_shutdown, io_errors,
                   rotate_requests>>

\* the rest of the iteration, main.rs:499-509. poll is what poll_events
\* did: returned Ok (completing a timeslot or not), returned Err, or
\* dispatched a TIMER_MIGRATION_DETECTED sample, whose handler calls
\* std::process::exit(1) (bpf_error_handler.rs:58)
PollEvents(poll) ==
    /\ Running
    /\ main_pc = "poll_events"
    /\ poll_last' = poll
    /\ CASE poll = "Err" ->
              /\ bpf_error_tx' = "sent"
              /\ main_pc' = "joining"
              /\ UNCHANGED <<channel, exit_status, next_item>>
         [] poll = "TimerMigration" ->
              /\ exit_status' = "failure"
              /\ main_pc' = "exited"
              /\ UNCHANGED <<bpf_error_tx, channel, next_item>>
         [] poll = "Timeslot" ->
              /\ next_item < MaxItems
              /\ next_item' = next_item + 1
              /\ channel' = TrySend(channel, next_item + 1, writer_pc # "returned")
              /\ main_pc' = "polling"
              /\ UNCHANGED <<bpf_error_tx, exit_status>>
         [] OTHER ->
              /\ main_pc' = "polling"
              /\ UNCHANGED <<bpf_error_tx, channel, exit_status, next_item>>
    /\ UNCHANGED <<monitor_pc, monitor_result, shutdown_tx, writer_pc, writer_result,
                   shutdown_signal, rotate_channel, items_written, closes, queued_at_shutdown,
                   io_errors, rotate_requests>>

\* main.rs:512-518: wait for the monitoring task, then return
MainJoin ==
    /\ Running
    /\ main_pc = "joining"
    /\ monitor_pc = "returned"
    /\ exit_status' = MainExitStatus(monitor_result)
    /\ main_pc' = "exited"
    /\ UNCHANGED <<monitor_pc, monitor_result, shutdown_tx, bpf_error_tx, writer_pc,
                   writer_result, shutdown_signal, channel, rotate_channel, items_written, closes,
                   next_item, poll_last, queued_at_shutdown, io_errors, rotate_requests>>

\* main.rs:477-483 up to the await: tell the poll loop, then
\* ParquetWriterTask::shutdown sets the watch value
MonitorBreak ==
    /\ shutdown_tx' = "sent"
    /\ shutdown_signal' = TRUE
    /\ queued_at_shutdown' = channel
    /\ monitor_pc' = "shutting_down"
    /\ UNCHANGED <<main_pc, monitor_result, bpf_error_tx, writer_pc, writer_result, channel,
                   rotate_channel, items_written, closes, exit_status, next_item, poll_last, io_errors,
                   rotate_requests>>

\* the arms of the select for the duration timeout, SIGTERM and SIGINT
MonitorSignal(sig) ==
    /\ Running
    /\ monitor_pc = "select"
    /\ sig \in Signals
    /\ MonitorBreak

\* the arm for bpf_error_rx, main.rs:446-457
MonitorBpfError ==
    /\ Running
    /\ monitor_pc = "select"
    /\ bpf_error_tx = "sent"
    /\ MonitorBreak

\* the arm for the writer task's join handle, main.rs:459-473: the task
\* returns, and shutdown_tx is dropped with it
MonitorWriterDone ==
    /\ Running
    /\ monitor_pc = "select"
    /\ writer_pc = "returned"
    /\ monitor_pc' = "returned"
    /\ monitor_result' = "Err"
    /\ shutdown_tx' = "dropped"
    /\ UNCHANGED <<main_pc, bpf_error_tx, writer_pc, writer_result, shutdown_signal, channel,
                   rotate_channel, items_written, closes, exit_status, next_item, poll_last,
                   queued_at_shutdown, io_errors, rotate_requests>>

\* ParquetWriterTask::rotate, parquet_writer_task.rs:71-78:
\* rotate_sender.send(()).await completes when the signal is queued or the
\* receiver is gone, and waits while the channel is full
RotateSend(queued, receiver_alive) ==
    IF ~receiver_alive THEN [queued |-> queued, pc |-> "select"]
    ELSE IF queued < RotateCapacity THEN [queued |-> queued + 1, pc |-> "select"]
    ELSE [queued |-> queued, pc |-> "rotating"]

\* the arm for SIGUSR1, main.rs:437-444
MonitorSigusr1 ==
    /\ Running
    /\ monitor_pc = "select"
    /\ rotate_requests < MaxRotateRequests
    /\ rotate_requests' = rotate_requests + 1
    /\ LET r == RotateSend(rotate_channel, writer_pc # "returned")
       IN  /\ rotate_channel' = r.queued
           /\ monitor_pc' = r.pc
    /\ UNCHANGED <<main_pc, monitor_result, shutdown_tx, bpf_error_tx, writer_pc,
                   writer_result, shutdown_signal, channel, items_written, closes, exit_status,
                   next_item, poll_last, queued_at_shutdown, io_errors>>

\* the send of rotate completes
MonitorRotateResume ==
    /\ Running
    /\ monitor_pc = "rotating"
    /\ LET r == RotateSend(rotate_channel, writer_pc # "returned")
       IN  /\ r.pc = "select"
           /\ rotate_channel' = r.queued
           /\ monitor_pc' = r.pc
    /\ UNCHANGED <<main_pc, monitor_result, shutdown_tx, bpf_error_tx, writer_pc,
                   writer_result, shutdown_signal, channel, items_written, closes, exit_status,
                   next_item, poll_last, queued_at_shutdown, io_errors, rotate_requests>>

\* ParquetWriterTask::shutdown, parquet_writer_task.rs:54-57, and
\* main.rs:483-489
MonitorJoinWriter ==
    /\ Running
    /\ monitor_pc = "shutting_down"
    /\ writer_pc = "returned"
    /\ monitor_result' = IF writer_result = "Ok" THEN "Ok" ELSE "Err"
    /\ monitor_pc' = "returned"
    /\ UNCHANGED <<main_pc, shutdown_tx, bpf_error_tx, writer_pc, writer_result,
                   shutdown_signal, channel, rotate_channel, items_written, closes, exit_status,
                   next_item, poll_last, queued_at_shutdown, io_errors, rotate_requests>>

\* self.writer.close().await, parquet_writer_task.rs:117
WriterTaskClose(io) ==
    /\ closes' = closes + 1
    /\ writer_pc' = "returned"
    /\ writer_result' = io
    /\ io_errors' = IF io = "Err" THEN io_errors + 1 ELSE io_errors
    /\ UNCHANGED <<channel, rotate_channel, items_written>>

\* the while test of TaskRunner::run, parquet_writer_task.rs:92
WriterTaskLoop(io) ==
    /\ Running
    /\ writer_pc = "loop"
    /\ IF shutdown_signal
       THEN WriterTaskClose(io)
       ELSE /\ writer_pc' = "select"
            /\ UNCHANGED <<writer_result, channel, rotate_channel, items_written, closes, io_errors>>
    /\ UNCHANGED <<main_pc, monitor_pc, monitor_result, shutdown_tx, bpf_error_tx,
                   shutdown_signal, exit_status, next_item, poll_last, queued_at_shutdown,
                   rotate_requests>>

\* parquet_writer_task.rs:105-112: the task after self.writer.rotate():
\* an Err is logged and the loop goes on
RotateFailed(io) == [pc |-> IF io = "Panicked" THEN "returned" ELSE "loop",
                     result |-> IF io = "Panicked" THEN io ELSE "None"]

\* parquet_writer_task.rs:101-104: changed() is ready once the value is set
ShutdownBranchReady(signal, queue) == signal

\* the select of TaskRunner::run, parquet_writer_task.rs:93-113: one of
\* the ready branches runs
WriterTaskSelect(branch, io) ==
    /\ Running
    /\ writer_pc = "select"
    /\ CASE branch = "recv" ->
              /\ channel # <<>>
              /\ channel' = Tail(channel)
              /\ IF io = "Ok"
                 THEN /\ items_written' = Append(items_written, Head(channel))
                      /\ writer_pc' = "loop"
                      /\ UNCHANGED <<writer_result, io_errors>>
                 ELSE /\ writer_pc' = "returned"
                      /\ writer_result' = io
                      /\ io_errors' = IF io = "Err" THEN io_errors + 1 ELSE io_errors
                      /\ UNCHANGED items_written
              /\ UNCHANGED <<rotate_channel, closes>>
         [] branch = "shutdown" ->
              /\ ShutdownBranchReady(shutdown_signal, channel)
              /\ WriterTaskClose(io)
         [] branch = "rotate" ->
              /\ rotate_channel > 0
              /\ rotate_channel' = rotate_channel - 1
              /\ io_errors' = IF io = "Err" THEN io_errors + 1 ELSE io_errors
              /\ writer_pc' = RotateFailed(io).pc
              /\ writer_result' = RotateFailed(io).result
              /\ UNCHANGED <<channel, items_written, closes>>
    /\ UNCHANGED <<main_pc, monitor_pc, monitor_result, shutdown_tx, bpf_error_tx,
                   shutdown_signal, exit_status, next_item, poll_last, queued_at_shutdown,
                   rotate_requests>>

PollEventsAny == \E poll \in {"Ok", "Timeslot", "Err", "TimerMigration"} : PollEvents(poll)

MonitorSignalAny == \E sig \in Signals : MonitorSignal(sig)

WriterTaskLoopAny == \E io \in IoOutcomes : WriterTaskLoop(io)

WriterTaskSelectAny ==
    \E branch \in {"recv", "shutdown", "rotate"}, io \in IoOutcomes : WriterTaskSelect(branch, io)

----------------------------------------------------------------------------
(* collector/src/bpf_perf_to_trace.rs : BpfPerfToTrace *)

\* BpfPerfToTrace::new
TraceNew ==
    /\ current_rows = 0
    /\ last_flush = 0
    /\ trace_clock = 0
    /\ batch_tx = TRUE
    /\ batch_channel = <<>>
    /\ trace_emitted = <<>>
    /\ trace_dropped = 0

\* self.last_flush.elapsed().as_secs()
ElapsedSecs(now, since) == (now - since) \div TicksPerSecond

\* flush_batch, bpf_perf_to_trace.rs:163-208, on rows pending rows: nothing
\* with no rows; else the batch is offered with try_send, refused when the
\* channel is full, and the builders, current_rows and last_flush are reset
FlushBatch(rows) ==
    IF rows = 0
    THEN UNCHANGED <<current_rows, last_flush, batch_channel, trace_emitted, trace_dropped>>
    ELSE /\ IF batch_tx
            THEN /\ trace_emitted' = Append(trace_emitted, rows)
                 /\ IF Len(batch_channel) < BatchChannelCapacity
                    THEN /\ batch_channel' = Append(batch_channel, rows)
                         /\ UNCHANGED trace_dropped
                    ELSE /\ trace_dropped' = trace_dropped + 1
                         /\ UNCHANGED batch_channel
            ELSE UNCHANGED <<batch_channel, trace_emitted, trace_dropped>>
         /\ current_rows' = 0
         /\ last_flush' = trace_clock

\* handle_perf_measurement, bpf_perf_to_trace.rs:104-160
TraceHandlePerfMeasurement(parse_ok) ==
    /\ IF ~parse_ok
       THEN UNCHANGED <<current_rows, last_flush, batch_channel, trace_emitted, trace_dropped>>
       ELSE LET rows == current_rows + 1
                should_flush_capacity == rows >= TraceCapacity
                should_flush_time == ElapsedSecs(trace_clock, last_flush) >= 1
            IN  IF should_flush_capacity \/ should_flush_time
                THEN FlushBatch(rows)
                ELSE /\ current_rows' = rows
                     /\ UNCHANGED <<last_flush, batch_channel, trace_emitted, trace_dropped>>
    /\ UNCHANGED <<trace_clock, batch_tx>>

\* shutdown, bpf_perf_to_trace.rs:211-221
TraceShutdown ==
    /\ batch_tx
    /\ FlushBatch(current_rows)
    /\ batch_tx' = FALSE
    /\ UNCHANGED trace_clock

\* time passes
TraceTick ==
    /\ trace_clock < MaxClock
    /\ trace_clock' = trace_clock + 1
    /\ UNCHANGED <<current_rows, last_flush, batch_tx, batch_channel, trace_emitted,
                   trace_dropped>>

\* the task at the other end of the channel receives a batch
TraceReceive ==
    /\ batch_channel # <<>>
    /\ batch_channel' = Tail(batch_channel)
    /\ UNCHANGED <<current_rows, last_flush, trace_clock, batch_tx, trace_emitted,
                   trace_dropped>>

TraceHandleAny ==
    /\ Len(trace_emitted) < MaxTraceBatches
    /\ \E parse_ok \in BOOLEAN : TraceHandlePerfMeasurement(parse_ok)

----------------------------------------------------------------------------
(* bpf_perf_to_timeslot.rs and bpf_task_tracker.rs : the aggregator and    *)
(* the task tracker it looks metadata up in, called as the dispatcher and  *)
(* the timeslot tracker call them                                          *)

AggPids == 1..MaxAggPid

\* pid and deltas of the measurements
AggEvents ==
    {[pid |-> p, metric |-> m] :
        p \in AggPids,
        m \in {MetricFromDeltas(1, 0, 0, 0, 1), MetricFromDeltas(0, 2, 1, 1, 1)}}
    \ {[pid |-> MaxAggPid, metric |-> MetricFromDeltas(0, 2, 1, 1, 1)]}

\* a whole message, and one cut after its message type
AggData ==
    {LeBytes(12, 4) \o TypedSample(MSG_TYPE_PERF_MEASUREMENT, TimeSlotSize),
     LeBytes(4, 4) \o LeBytes(MSG_TYPE_PERF_MEASUREMENT, 4)}

\* a PERF_MEASUREMENT record is dispatched to handle_perf_measurement
AggPerfMeasurement ==
    /\ Len(perf_delivered) < MaxSamples
    /\ \E ring_index \in {0}, data \in AggData, event \in AggEvents :
          /\ ParseOk(data) \/ (event.pid = 1 /\ event.metric.cycles = 1)
          /\ HandlePerfMeasurement(ring_index, data, event)
    /\ UNCHANGED taskVars

\* the timeslot tracker announces the next boundary to its subscribers:
\* BpfTaskTracker::on_new_timeslot, then BpfPerfToTimeslot::on_new_timeslot
AggNewTimeslot ==
    /\ current_timeslot.start_timestamp < MaxAdvances * TimeSlotSize
    /\ OnNewTimeslot
    /\ \E sent \in BOOLEAN, report \in BOOLEAN :
          OnNewTimeslotPerf(current_timeslot.start_timestamp + TimeSlotSize, sent, report)
    /\ announced' = announced \cup {current_timeslot.start_timestamp + TimeSlotSize}
    /\ UNCHANGED perf_delivered

\* TASK_METADATA and TASK_FREE records of the same dispatcher, for task 1;
\* the other task stays unknown to the tracker, as a kernel thread does
AggTaskMetadata ==
    /\ \E pid \in {1}, comm \in Comms : HandleTaskMetadata(TRUE, pid, comm)
    /\ UNCHANGED perfVars

AggTaskFree ==
    /\ removal_queue = <<>>
    /\ \E pid \in {1} : HandleTaskFree(TRUE, pid)
    /\ UNCHANGED perfVars

----------------------------------------------------------------------------
(* Specifications: one per component, the other components at rest *)

\* the ring of SpecRing, unused
RingIdle ==
    /\ mem = <<>>
    /\ prod = <<>>
    /\ cons = <<>>
    /\ wbatch = FALSE
    /\ rbatch = FALSE
    /\ pending = <<>>
    /\ nwrites = 0
    /\ ret = "None"

WriterIdle ==
    WriterNew([buffer_size |-> 1, file_size_limit |-> 1, storage_quota |-> None])

\* the variables SpecRing leaves alone
restOfRing == <<readerVars, timeslotVars, taskVars, writerVars, handlerVars, dispatcherVars, perfVars, syncVars, mainVars, traceVars>>

InitRing ==
    /\ RingInit
    /\ ReaderNew
    /\ TimeslotNew
    /\ TaskNew
    /\ WriterIdle
    /\ HandlerIdle
    /\ DispatcherNew
    /\ PerfToTimeslotNew
    /\ SyncTimerIdle
    /\ MainNew
    /\ TraceNew

NextRing ==
    \/ StartWriteBatch /\ UNCHANGED restOfRing
    \/ WriteAny /\ UNCHANGED restOfRing
    \/ FinishWriteBatch /\ UNCHANGED restOfRing
    \/ StartReadBatch /\ UNCHANGED restOfRing
    \/ Pop /\ UNCHANGED restOfRing
    \/ FinishReadBatch /\ UNCHANGED restOfRing

SpecRing == InitRing /\ [][NextRing]_vars

\* the variables SpecReader leaves alone
restOfReader == <<ringVars, timeslotVars, taskVars, writerVars, handlerVars, dispatcherVars, perfVars, syncVars, mainVars, traceVars>>

InitReader ==
    /\ RingIdle
    /\ ReaderNew
    /\ TimeslotNew
    /\ TaskNew
    /\ WriterIdle
    /\ HandlerIdle
    /\ DispatcherNew
    /\ PerfToTimeslotNew
    /\ SyncTimerIdle
    /\ MainNew
    /\ TraceNew

NextReader ==
    \/ AddRing /\ UNCHANGED restOfReader
    \/ Start /\ UNCHANGED restOfReader
    \/ Finish /\ UNCHANGED restOfReader
    \/ ReaderPop /\ UNCHANGED restOfReader
    \/ PeekTimestamp /\ UNCHANGED restOfReader
    \/ CurrentRing /\ UNCHANGED restOfReader
    \/ ProduceAny /\ UNCHANGED restOfReader

SpecReader == InitReader /\ [][NextReader]_vars

\* the variables SpecTimeslot leaves alone
restOfTimeslot == <<ringVars, readerVars, taskVars, writerVars, handlerVars, dispatcherVars, perfVars, syncVars, mainVars, traceVars>>

InitTimeslot ==
    /\ RingIdle
    /\ ReaderNew
    /\ TimeslotNew
    /\ TaskNew
    /\ WriterIdle
    /\ HandlerIdle
    /\ DispatcherNew
    /\ PerfToTimeslotNew
    /\ SyncTimerIdle
    /\ MainNew
    /\ TraceNew

NextTimeslot ==
    \/ Subscribe /\ UNCHANGED restOfTimeslot
    \/ HandleAnyTimerFinished /\ UNCHANGED restOfTimeslot

SpecTimeslot == InitTimeslot /\ [][NextTimeslot]_vars

\* the variables SpecTask leaves alone
restOfTask == <<ringVars, readerVars, timeslotVars, writerVars, handlerVars, dispatcherVars, perfVars, syncVars, mainVars, traceVars>>

InitTask ==
    /\ RingIdle
    /\ ReaderNew
    /\ TimeslotNew
    /\ TaskNew
    /\ WriterIdle
    /\ HandlerIdle
    /\ DispatcherNew
    /\ PerfToTimeslotNew
    /\ SyncTimerIdle
    /\ MainNew
    /\ TraceNew

NextTask ==
    \/ HandleAnyTaskMetadata /\ UNCHANGED restOfTask
    \/ HandleAnyTaskFree /\ UNCHANGED restOfTask
    \/ OnNewTimeslot /\ UNCHANGED restOfTask

SpecTask == InitTask /\ [][NextTask]_vars

\* the variables SpecWriter leaves alone
restOfWriter == <<ringVars, readerVars, timeslotVars, taskVars, handlerVars, dispatcherVars, perfVars, syncVars, mainVars, traceVars>>

InitWriter ==
    /\ RingIdle
    /\ ReaderNew
    /\ TimeslotNew
    /\ TaskNew
    /\ \E cfg \in Configs : WriterNew(cfg)
    /\ HandlerIdle
    /\ DispatcherNew
    /\ PerfToTimeslotNew
    /\ SyncTimerIdle
    /\ MainNew
    /\ TraceNew

NextWriter ==
    \/ WriterWriteAny /\ UNCHANGED restOfWriter
    \/ WriterFlushAny /\ UNCHANGED restOfWriter
    \/ WriterRotateAny /\ UNCHANGED restOfWriter

SpecWriter == InitWriter /\ [][NextWriter]_vars

\* the variables SpecHandler leaves alone
restOfHandler == <<ringVars, readerVars, timeslotVars, taskVars, writerVars, dispatcherVars, perfVars, syncVars, mainVars, traceVars>>

InitHandler ==
    /\ RingIdle
    /\ ReaderNew
    /\ TimeslotNew
    /\ TaskNew
    /\ WriterIdle
    /\ HandlerNew
    /\ DispatcherNew
    /\ PerfToTimeslotNew
    /\ SyncTimerIdle
    /\ MainNew
    /\ TraceNew

NextHandler ==
    \/ HandlerSpawnAny /\ UNCHANGED restOfHandler
    \/ TaskCompletesAny /\ UNCHANGED restOfHandler
    \/ HandlerResumeAny /\ UNCHANGED restOfHandler

SpecHandler == InitHandler /\ [][NextHandler]_vars

\* the variables SpecDispatcher leaves alone
restOfDispatcher == <<ringVars, timeslotVars, taskVars, writerVars, handlerVars, perfVars, syncVars, mainVars, traceVars>>

InitDispatcher ==
    /\ RingIdle
    /\ ReaderNew
    /\ TimeslotNew
    /\ TaskNew
    /\ WriterIdle
    /\ HandlerIdle
    /\ DispatcherNew
    /\ PerfToTimeslotNew
    /\ SyncTimerIdle
    /\ MainNew
    /\ TraceNew

NextDispatcher ==
    \/ AddRing /\ UNCHANGED <<dispatcherVars, restOfDispatcher>>
    \/ Start /\ UNCHANGED <<dispatcherVars, restOfDispatcher>>
    \/ Finish /\ UNCHANGED <<dispatcherVars, restOfDispatcher>>
    \/ DispatcherProduceAny /\ UNCHANGED <<dispatcherVars, restOfDispatcher>>
    \/ DispatcherSubscribeAny /\ UNCHANGED <<readerVars, restOfDispatcher>>
    \/ SubscribeLostSamples /\ UNCHANGED <<readerVars, restOfDispatcher>>
    \/ Dispatch /\ UNCHANGED restOfDispatcher

SpecDispatcher == InitDispatcher /\ [][NextDispatcher]_vars

\* the variables SpecCollector leaves alone
restOfCollector == <<ringVars, taskVars, writerVars, handlerVars, syncVars, mainVars, traceVars>>

InitCollector ==
    /\ RingIdle
    /\ CollectorReaderNew
    /\ CollectorTimeslotNew
    /\ TaskNew
    /\ WriterIdle
    /\ HandlerIdle
    /\ CollectorDispatcherNew
    /\ PerfToTimeslotNew
    /\ SyncTimerIdle
    /\ MainNew
    /\ TraceNew

NextCollector ==
    \/ Start /\ UNCHANGED <<timeslotVars, dispatcherVars, perfVars, restOfCollector>>
    \/ Finish /\ UNCHANGED <<timeslotVars, dispatcherVars, perfVars, restOfCollector>>
    \/ CpuProduceAny /\ UNCHANGED <<timeslotVars, dispatcherVars, perfVars, restOfCollector>>
    \/ CollectorDispatch /\ UNCHANGED restOfCollector

SpecCollector == InitCollector /\ [][NextCollector]_vars

\* the variables SpecSyncTimer leaves alone
restOfSyncTimer == <<ringVars, readerVars, timeslotVars, taskVars, writerVars, handlerVars, dispatcherVars, perfVars, mainVars, traceVars>>

InitSyncTimer ==
    /\ RingIdle
    /\ ReaderNew
    /\ TimeslotNew
    /\ TaskNew
    /\ WriterIdle
    /\ HandlerIdle
    /\ DispatcherNew
    /\ PerfToTimeslotNew
    /\ SyncTimerNew
    /\ MainNew
    /\ TraceNew

NextSyncTimer ==
    \/ WithModeAny /\ UNCHANGED restOfSyncTimer
    \/ AllCoresBeginAny /\ UNCHANGED restOfSyncTimer
    \/ OnCoreAny /\ UNCHANGED restOfSyncTimer
    \/ RestoreAffinityAny /\ UNCHANGED restOfSyncTimer
    \/ RestoreSysctlAny /\ UNCHANGED restOfSyncTimer

SpecSyncTimer == InitSyncTimer /\ [][NextSyncTimer]_vars

\* the variables SpecMain leaves alone
restOfMain == <<ringVars, readerVars, timeslotVars, taskVars, writerVars, handlerVars, dispatcherVars, perfVars, syncVars, traceVars>>

InitMain ==
    /\ RingIdle
    /\ ReaderNew
    /\ TimeslotNew
    /\ TaskNew
    /\ WriterIdle
    /\ HandlerIdle
    /\ DispatcherNew
    /\ PerfToTimeslotNew
    /\ SyncTimerIdle
    /\ MainNew
    /\ TraceNew

NextMain ==
    \/ PollLoopCheck /\ UNCHANGED restOfMain
    \/ PollEventsAny /\ UNCHANGED restOfMain
    \/ MainJoin /\ UNCHANGED restOfMain
    \/ MonitorSignalAny /\ UNCHANGED restOfMain
    \/ MonitorBpfError /\ UNCHANGED restOfMain
    \/ MonitorWriterDone /\ UNCHANGED restOfMain
    \/ MonitorSigusr1 /\ UNCHANGED restOfMain
    \/ MonitorRotateResume /\ UNCHANGED restOfMain
    \/ MonitorJoinWriter /\ UNCHANGED restOfMain
    \/ WriterTaskLoopAny /\ UNCHANGED restOfMain
    \/ WriterTaskSelectAny /\ UNCHANGED restOfMain

SpecMain == InitMain /\ [][NextMain]_vars

\* the variables SpecTrace leaves alone
restOfTrace == <<ringVars, readerVars, timeslotVars, taskVars, writerVars, handlerVars, dispatcherVars, perfVars, syncVars, mainVars>>

InitTrace ==
    /\ RingIdle
    /\ ReaderNew
    /\ TimeslotNew
    /\ TaskNew
    /\ WriterIdle
    /\ HandlerIdle
    /\ DispatcherNew
    /\ PerfToTimeslotNew
    /\ SyncTimerIdle
    /\ MainNew
    /\ TraceNew

NextTrace ==
    \/ TraceHandleAny /\ UNCHANGED restOfTrace
    \/ TraceShutdown /\ UNCHANGED restOfTrace
    \/ TraceTick /\ UNCHANGED restOfTrace
    \/ TraceReceive /\ UNCHANGED restOfTrace

SpecTrace == InitTrace /\ [][NextTrace]_vars

\* the variables SpecAggregator leaves alone
restOfAggregator == <<ringVars, readerVars, timeslotVars, writerVars, handlerVars, dispatcherVars, syncVars, mainVars, traceVars>>

InitAggregator ==
    /\ RingIdle
    /\ ReaderNew
    /\ TimeslotNew
    /\ TaskNew
    /\ WriterIdle
    /\ HandlerIdle
    /\ DispatcherNew
    /\ PerfToTimeslotNew
    /\ SyncTimerIdle
    /\ MainNew
    /\ TraceNew

NextAggregator ==
    \/ AggPerfMeasurement /\ UNCHANGED restOfAggregator
    \/ AggNewTimeslot /\ UNCHANGED restOfAggregator
    \/ AggTaskMetadata /\ UNCHANGED restOfAggregator
    \/ AggTaskFree /\ UNCHANGED restOfAggregator

SpecAggregator == InitAggregator /\ [][NextAggregator]_vars

----------------------------------------------------------------------------
(* Properties of the ring *)

\* offset of the caller's payload inside the record's payload area: a SAMPLE
\* record starts with the u32 size field that write adds
PayloadOffset(event_type) == IF event_type = PERF_RECORD_SAMPLE THEN 4 ELSE 0

\* the consumer's current record, when it has one, is the oldest accepted
\* and unpopped payload, bitwise identical and of the same type
RingReadBackOK ==
    (cons.tail # cons.head /\ pending # <<>>) =>
        LET rec == Head(pending) IN
        /\ PeekType(mem, cons) = rec.type
        /\ PeekCopy(mem, cons, Len(rec.data), PayloadOffset(rec.type))
               = [err |-> "Ok", bytes |-> rec.data]

\* the ring holds nothing, as the producer sees it
RingEmptyForWriter == pending = <<>> /\ prod.tail = prod.head

\* C2 (as stated): every non-empty payload P with
\* |P| <= buf_mask - header_size - 4 written to an empty ring at any
\* head/tail offset is accepted; a following peek_copy returns P bitwise
\* identical; and the pop of that record leaves the ring empty.
C2_RoundTripAsStated ==
    [][ /\ \A n \in RingPayloadLens, t \in {PERF_RECORD_SAMPLE, PERF_RECORD_LOST} :
             ( /\ RingEmptyForWriter
               /\ n >= 1
               /\ n <= BufMask(mem) - HeaderSize - 4
               /\ Write(TestPayload(n, nwrites + 1), t) )
             => ret' = "Ok"
        /\ RingReadBackOK'
        /\ (Pop /\ Len(pending) = 1) => (cons'.head = cons'.tail /\ BytesRemaining(mem', cons') = 0)
      ]_vars

\* produced position minus consumed position, for the producer, the shared
\* page and the consumer
RingBounded ==
    /\ prod.tail - mem.data_tail <= DataLen(mem)
    /\ mem.data_head - mem.data_tail <= DataLen(mem)
    /\ cons.tail - cons.head <= DataLen(mem)
    /\ prod.tail >= mem.data_head /\ mem.data_head >= mem.data_tail
    /\ cons.tail >= cons.head

----------------------------------------------------------------------------
(* Properties of the Reader *)

\* the records of ring r between the reader's head and tail, oldest first
RECURSIVE RecordsFrom(_, _)
RecordsFrom(m, h) ==
    IF h.head >= h.tail THEN <<>>
    ELSE <<[type |-> PeekType(m, h),
            whole |-> PeekType(m, h) # PERF_RECORD_SAMPLE \/ PeekSize(m, h).size >= 16,
            ts |-> CarriedTimestamp(m, h)]>>
         \o RecordsFrom(m, PopHandle(m, h))

PoppedFrom(i) == SelectSeq(popped, LAMBDA e : e.ring = i)

\* the records of ring i in the current batch: those popped, then those left
BatchRecords(i) ==
    [k \in 1..Len(PoppedFrom(i)) |->
        [type |-> PoppedFrom(i)[k].type, whole |-> PoppedFrom(i)[k].whole,
         ts |-> PoppedFrom(i)[k].ts]]
    \o RecordsFrom(rings[i].mem, rings[i].cons)

BatchSamples ==
    {<<i, k>> \in (1..Len(rings)) \X (1..MaxRecords) :
        k <= Len(BatchRecords(i)) /\ BatchRecords(i)[k].type = PERF_RECORD_SAMPLE}

\* every sample of the batch holds a whole SampleHeader, and no two samples
\* carry the same timestamp
DistinctSampleTimestamps ==
    /\ \A x \in BatchSamples : BatchRecords(x[1])[x[2]].whole
    /\ \A x, y \in BatchSamples :
          x # y => BatchRecords(x[1])[x[2]].ts # BatchRecords(y[1])[y[2]].ts

PoppedAscending ==
    \A k \in 1..(Len(popped) - 1) :
        /\ U64Leq(popped[k].key, popped[k + 1].key)
        /\ U64Leq(popped[k].ts, popped[k + 1].ts)

LostBeforeSamples ==
    \A j, k \in 1..Len(popped) :
        (j < k /\ popped[j].type = PERF_RECORD_SAMPLE)
            => popped[k].type # PERF_RECORD_LOST

\* C1 (as stated): within one read batch over rings whose sample records
\* carry distinct timestamps, successive pops consume the records in
\* ascending timestamp order, and every lost-record is dequeued before any
\* sample of the batch.
C1_AsStated ==
    (active /\ DistinctSampleTimestamps) => (PoppedAscending /\ LostBeforeSamples)

\* each ring holds its records in ascending timestamp order, a lost-record
\* counting as timestamp 0, and every sample holds a whole SampleHeader
RingsAscending ==
    \A i \in 1..Len(rings) :
        /\ \A k \in 1..Len(BatchRecords(i)) : BatchRecords(i)[k].whole
        /\ \A k \in 1..(Len(BatchRecords(i)) - 1) :
              U64Leq(BatchRecords(i)[k].ts, BatchRecords(i)[k + 1].ts)

LostBeforeNonZeroSamples ==
    \A j, k \in 1..Len(popped) :
        (j < k /\ popped[j].type = PERF_RECORD_SAMPLE /\ popped[j].ts # Zero64)
            => popped[k].type # PERF_RECORD_LOST

\* C1 (amended): within one read batch over rings each of which holds its
\* records in ascending timestamp order (a lost-record counting as timestamp
\* 0), successive pops consume the records in non-decreasing timestamp order,
\* the key of each pop being the timestamp the record carries, and every
\* lost-record that is popped is popped before any sample of non-zero
\* timestamp.
C1_Ordering ==
    (active /\ RingsAscending) =>
        /\ PoppedAscending
        /\ \A k \in 1..Len(popped) : popped[k].key = popped[k].ts
        /\ LostBeforeNonZeroSamples

\* a merge of two rings: the lost-record of one ring, then the sample of the
\* other ring, then the later sample of the first ring
C1_Witness ==
    /\ active
    /\ RingsAscending
    /\ Len(popped) = 3
    /\ popped[1].type = PERF_RECORD_LOST
    /\ popped[2].type = PERF_RECORD_SAMPLE
    /\ popped[3].type = PERF_RECORD_SAMPLE
    /\ popped[2].ring # popped[1].ring
    /\ popped[3].ring = popped[1].ring
    /\ popped[2].ts # popped[3].ts

ReaderIdleActive ==
    /\ ~active =>
          /\ PeekTimestampResult = "NotActive"
          /\ CurrentRingResult = "NotActive"
          /\ PopResult = "NotActive"
    /\ active =>
          /\ AddRingResult = "AlreadyActive"
          /\ StartResult = "AlreadyActive"
    /\ Len(rings) = 0 => StartResult = "NoRings"

ReaderState == <<rings, heap, in_heap, active>>

\* C4: the Reader is Idle or Active.  peek_timestamp, current_ring and pop
\* return NotActive in every Idle state (before the first start, after every
\* finish); add_ring and start return AlreadyActive in every Active state;
\* start returns NoRings when no ring was added; a rejected call leaves the
\* reader's state unchanged.
C4_Lifecycle ==
    [][ /\ ReaderIdleActive
        /\ ReaderIdleActive'
        /\ (Start /\ last'.res = "Ok") => (~active /\ active')
        /\ Finish => ~active'
        /\ (last'.op = "start" /\ Len(rings') = 0) => last'.res = "NoRings"
        /\ ((AddRing \/ Start \/ ReaderPop \/ PeekTimestamp \/ CurrentRing)
                /\ last'.res # "Ok")
             => UNCHANGED ReaderState
        /\ (last' # last /\ last'.res = "NotActive") =>
              (~active /\ last'.op \in {"peek_timestamp", "current_ring", "pop"})
        /\ (last' # last /\ last'.res = "AlreadyActive") =>
              (active /\ last'.op \in {"add_ring", "start"})
      ]_vars

\* start was refused in an active batch in which records have been popped,
\* and the batch went on
C4_Witness ==
    /\ active
    /\ last = [op |-> "start", res |-> "AlreadyActive"]
    /\ Len(popped) > 0
    /\ heap # <<>>


----------------------------------------------------------------------------
(* Properties of the timeslot tracker *)

Unreported(mt) == {c \in 1..Len(mt.cpu_timestamps) : mt.cpu_timestamps[c] = None}

\* the minimum time slot boundary over the CPUs' latest timestamps, defined
\* once every CPU has one
SlotMin(mt) ==
    IF Unreported(mt) # {} \/ Len(mt.cpu_timestamps) = 0 THEN None
    ELSE LET slot(c) == mt.cpu_timestamps[c][1] \div mt.time_slot_size
             c_min == CHOOSE c \in 1..Len(mt.cpu_timestamps) :
                         \A d \in 1..Len(mt.cpu_timestamps) : slot(c) <= slot(d)
         IN  Some(slot(c_min) * mt.time_slot_size)

\* C5: while some CPU has never had a successful update, get_min returns
\* None and no timeslot-advanced event is delivered to any subscriber;
\* get_min is Some only once every CPU has reported.
C5_NoneUntilAllReported ==
    /\ Unreported(min_tracker) # {} =>
          /\ GetMin(min_tracker) = None
          /\ delivered = <<>>
          /\ last_min_slot = None
    /\ GetMin(min_tracker) # None => Unreported(min_tracker) = {}
    /\ min_tracker.uninitialized_cpus = Cardinality(Unreported(min_tracker))

\* a record was accepted, subscribers are waiting, and a CPU is still silent
C5_Witness ==
    /\ tcall.res = "Ok"
    /\ subscribers > 0
    /\ Unreported(min_tracker) # {}
    /\ Cardinality(Unreported(min_tracker)) < NumCpus

\* C6: once get_min has returned Some, it never decreases over any further
\* update calls, accepted or rejected.
C6_MinNeverDecreases ==
    [][ GetMin(min_tracker) # None =>
            /\ GetMin(min_tracker') # None
            /\ GetMin(min_tracker')[1] >= GetMin(min_tracker)[1] ]_vars

\* the minimum has advanced by two slots and a later update was rejected
C6_Witness ==
    /\ GetMin(min_tracker) = Some(2 * TimeSlotSize)
    /\ tcall.res = "NonMonotonicTimestamp"

\* C7: update returns NonMonotonicTimestamp exactly when the timestamp is
\* less than the previous accepted timestamp of the same CPU (equal is
\* accepted) and CpuIdOutOfRange exactly when cpu_id >= num_cpus; on an error
\* the per-CPU timestamps, the slot counts, the uninitialized count and
\* get_min are unchanged.
C7_UpdateErrors ==
    [][ \A cpu_id \in 0..NumCpus, timestamp \in Timestamps :
          HandleTimerFinishedProcessing(cpu_id, TRUE, timestamp) =>
            LET prev == IF cpu_id < NumCpus
                        THEN min_tracker.cpu_timestamps[cpu_id + 1] ELSE None
            IN  /\ (tcall'.res = "CpuIdOutOfRange") <=> (cpu_id >= NumCpus)
                /\ (tcall'.res = "NonMonotonicTimestamp") <=>
                      (cpu_id < NumCpus /\ prev # None /\ timestamp < prev[1])
                /\ tcall'.res \in {"Ok", "CpuIdOutOfRange", "NonMonotonicTimestamp"}
                /\ tcall'.res # "Ok" =>
                      /\ min_tracker'.cpu_timestamps = min_tracker.cpu_timestamps
                      /\ min_tracker'.time_slot_counts = min_tracker.time_slot_counts
                      /\ min_tracker'.uninitialized_cpus = min_tracker.uninitialized_cpus
                      /\ GetMin(min_tracker') = GetMin(min_tracker)
                /\ (tcall'.res = "Ok" /\ cpu_id < NumCpus) =>
                      min_tracker'.cpu_timestamps[cpu_id + 1] = Some(timestamp) ]_vars

\* an equal timestamp was accepted once every CPU had reported
C7_Witness ==
    /\ tcall.res = "Ok"
    /\ Unreported(min_tracker) = {}
    /\ \E c \in 1..NumCpus :
          /\ tcall.cpu_id = c - 1
          /\ min_tracker.cpu_timestamps[c] = Some(tcall.timestamp)
          /\ min_tracker.time_slot_counts[tcall.timestamp \div TimeSlotSize] = NumCpus
          /\ tcall.timestamp > TimeSlotSize

\* C8: after each TIMER_FINISHED record handled, a timeslot-advanced event is
\* delivered to every subscriber exactly when the minimum time slot across
\* the CPUs changed with this record, carrying (minimum before, minimum
\* after), an undefined minimum being reported as 0; a record that does not
\* change the minimum fires no event.
C8_EventOnChange ==
    [][ \A ring_index \in 0..NumCpus, parse_ok \in BOOLEAN, timestamp \in Timestamps :
          HandleTimerFinishedProcessing(ring_index, parse_ok, timestamp) =>
            LET before == SlotMin(min_tracker)
                after == SlotMin(min_tracker')
            IN  /\ before # after =>
                      delivered' = [s \in 1..subscribers |->
                                      [subscriber |-> s,
                                       old |-> UnwrapOr(before, 0),
                                       new |-> UnwrapOr(after, 0)]]
                /\ before = after => delivered' = <<>>
                /\ last_min_slot' = after ]_vars

\* every subscriber received the advance from one defined minimum to the next
C8_Witness ==
    /\ subscribers = MaxSubscribers
    /\ Len(delivered) = subscribers
    /\ \A s \in 1..subscribers :
          /\ delivered[s].old > 0
          /\ delivered[s].new > delivered[s].old
          /\ Some(delivered[s].new) = SlotMin(min_tracker)

----------------------------------------------------------------------------
(* Properties of the task collection *)

\* C9: a pid freed while registered is still looked up until the next
\* timeslot advance; the advance removes exactly the freed pids, and the
\* pids that were not freed are unaffected.
C9_DeferredRemoval ==
    [][ /\ \A p \in freed' : Lookup(tasks', p) # None
        /\ \A pid \in Pids :
              (HandleTaskFree(TRUE, pid) /\ Lookup(tasks, pid) # None) =>
                  /\ Lookup(tasks', pid) = Lookup(tasks, pid)
                  /\ pid \in freed'
        /\ OnNewTimeslot =>
              \A p \in Pids :
                  IF p \in freed
                  THEN Lookup(tasks', p) = None
                  ELSE Lookup(tasks', p) = Lookup(tasks, p) ]_vars

\* an advance removed two freed pids and left a third, registered one alone
C9_Witness ==
    /\ Cardinality(removed) = 2
    /\ removal_queue = <<>>
    /\ freed = {}
    /\ \E p \in Pids : Lookup(tasks, p) # None

----------------------------------------------------------------------------
(* Properties of the writer *)

\* bytes written so far: the row groups of the closed files and the flushed
\* row groups of the open file (footers not counted)
TotalWritten ==
    SumSeq(files)
    + (IF current_writer # None THEN SumSeq(current_writer[1].flushed) ELSE 0)

\* C10 (as stated): with storage_quota = Q, the total number of bytes written
\* across all produced files never exceeds Q.
C10_QuotaNeverExceeded ==
    config.storage_quota # None => TotalWritten <= config.storage_quota[1]


OverQuota == ~IsBelowQuota(config, WriterState)

\* the writer's accounting right after writer.write(&batch), where write
\* tests the quota again
AfterBatch(bytes, full, saved) ==
    UpdateCurrentWriterSize(
        [WriterState EXCEPT !.current_writer =
            Some(EncWrite(current_writer[1], bytes, full, saved))])

\* a step that opens a file
OpensFile ==
    /\ current_writer' # None
    /\ current_writer = None \/ Len(files') > Len(files)

EncAfterWrite(bytes, full, saved) ==
    LET enc1 == EncWrite(current_writer[1], bytes, full, saved)
    IN  IF enc1.in_progress >= config.buffer_size THEN EncFlush(enc1, saved) ELSE enc1

\* C13: after every write that leaves the writer below quota, if the current
\* file's size estimate (flushed row-group bytes + in-memory bytes) is >=
\* file_size_limit, the current file is closed and a new file is opened
\* before write returns; below the limit the current file stays open.
C13_RotateOnSize ==
    [][ \A bytes \in 1..MaxBatchBytes, full \in BOOLEAN,
          saved \in 0..MaxSaved :
            (/\ ~OverQuota
             /\ current_writer # None
             /\ WriterWrite(bytes, full, saved)
             /\ ~OverQuota')
            => LET enc == EncAfterWrite(bytes, full, saved)
                   estimate == SumSeq(enc.flushed) + enc.in_progress
               IN  IF estimate >= config.file_size_limit
                   THEN /\ files' = Append(files, SumSeq(EncClose(enc, saved)))
                        /\ current_writer' = Some(EncNew)
                        /\ flushed_row_groups_size' = 0
                        /\ in_memory_size' = 0
                   ELSE /\ files' = files
                        /\ current_writer' = Some(enc)
                        /\ flushed_row_groups_size' + in_memory_size' = estimate ]_vars

\* a write under a quota filled its file to the limit and a new one is open
C13_Witness ==
    /\ wlast = "write"
    /\ config.storage_quota # None
    /\ ~OverQuota
    /\ current_writer = Some(EncNew)
    /\ Len(files) >= 1
    /\ files[Len(files)] >= config.file_size_limit


----------------------------------------------------------------------------
(* Properties of the task completion handler *)

\* C12: however the future of a handler ends (Ok, Err or a panic), the token
\* passed to the handler is cancelled once the handler has returned; and
\* a handler calls cancel() on its token only after its task has ended:
\* the only step that cancels a token is the resumption of a handler whose
\* task is no longer running.
C12_CancelledOnReturn ==
    [][ /\ \A h \in Handlers :
             handler_pc'[h] = "returned" => token_of[h] \in cancelled'
        /\ \A t \in Tokens : \A h \in cancelled_by'[t] :
             /\ token_of[h] = t
             /\ task_outcome'[h] \in Outcomes
             /\ h \notin cancelled_by[t] => (task_outcome[h] \in Outcomes /\ handler_pc[h] = "awaiting")
        /\ cancelled' = {t \in Tokens : cancelled_by'[t] # {}}
        /\ \A h \in Handlers :
             (handler_pc[h] = "awaiting" /\ handler_pc'[h] = "returned")
                => logs'[h] = <<IF task_outcome[h] = "Ok" THEN "debug" ELSE "error">>
      ]_vars

\* all three endings have been handled, one of them a panic, and a token is
\* still untouched while its handler waits on a running task
C12_Witness ==
    /\ \E h \in Handlers : handler_pc[h] = "returned" /\ task_outcome[h] = "Panicked"
    /\ \E h \in Handlers : handler_pc[h] = "returned" /\ task_outcome[h] = "Err"
                            /\ token_of[h] \in cancelled
    /\ \E h \in Handlers : handler_pc[h] = "awaiting" /\ task_outcome[h] = "running"
                            /\ token_of[h] \notin cancelled


----------------------------------------------------------------------------
(* Per-ring order of the records read through the Reader *)

\* the record c read by the consumer is the record rec the producer wrote:
\* same type, the size write gave it, and the payload bytes at its place
ReadsAs(c, rec) ==
    /\ c.type = rec.type
    /\ c.size = AlignedLen(Len(rec.data), rec.type) - HeaderSize
    /\ SubSeq(c.bytes, PayloadOffset(rec.type) + 1, PayloadOffset(rec.type) + Len(rec.data))
          = rec.data

\* what has been popped from ring i is the first records written to it
ConsumedIsPrefix(cs, ps) ==
    /\ Len(cs) <= Len(ps)
    /\ \A k \in 1..Len(cs) : ReadsAs(cs[k], ps[k])

\* C14: for each ring the records popped through the Reader are, over all
\* the batches, the records its producer wrote, in the order written,
\* whatever their types and timestamps: each pop from a ring delivers the
\* oldest record of that ring not yet delivered (so none is skipped and
\* none is popped twice), and finish and start deliver nothing, so that the
\* record left unconsumed at finish is the next one delivered from the ring.
C14_PerRingOrder ==
    [][ /\ Len(consumed') = Len(rings') /\ Len(produced') = Len(rings')
        /\ \A i \in 1..Len(rings') : ConsumedIsPrefix(consumed'[i], produced'[i])
        /\ \A i \in 1..Len(rings) :
             /\ Len(consumed'[i]) \in {Len(consumed[i]), Len(consumed[i]) + 1}
             /\ Len(consumed'[i]) = Len(consumed[i]) + 1 =>
                  /\ last'.op = "pop" /\ last'.res = "Ok"
                  /\ Len(popped') = Len(popped) + 1
                  /\ popped'[Len(popped')].ring = i
                  /\ ReadsAs(consumed'[i][Len(consumed'[i])], produced[i][Len(consumed[i]) + 1])
        /\ Len(popped') = Len(popped) + 1 =>
             \E i \in 1..Len(rings) : Len(consumed'[i]) = Len(consumed[i]) + 1
      ]_vars

\* a ring whose records of different types and decreasing timestamps were
\* all delivered, the last of them in a later batch than the first
C14_Witness ==
    /\ active
    /\ \E i \in 1..Len(rings) :
         /\ Len(produced[i]) = MaxRecords
         /\ Len(consumed[i]) = MaxRecords
         /\ produced[i][1] = [type |-> PERF_RECORD_SAMPLE, data |-> SamplePayload(MaxTs)]
         /\ produced[i][2] = [type |-> PERF_RECORD_LOST, data |-> LostPayload]
         /\ produced[i][3] = [type |-> PERF_RECORD_SAMPLE, data |-> SamplePayload(1)]
         /\ Len(popped) = 2


----------------------------------------------------------------------------
(* The heap key of a ring's head record *)

\* the key as stated: 0 for a record that is not a SAMPLE or whose payload
\* cannot hold the sample header, the header's timestamp otherwise
StatedKey(m, h) ==
    IF PeekType(m, h) = PERF_RECORD_SAMPLE /\ PeekSize(m, h).size >= SampleHeaderSize
    THEN PeekCopy(m, h, 8, TimestampOffset).bytes
    ELSE Zero64

\* C15: every entry of the heap holds, for the head record of its ring, the
\* key 0 when the record is not a SAMPLE or is a SAMPLE whose payload is
\* shorter than the 16-byte sample header, and the timestamp of that
\* header otherwise; the key never comes from bytes past the record.
C15_KeyAsStated ==
    \A k \in 1..Len(heap) :
        LET r == rings[heap[k].ring_index]
        IN  heap[k].timestamp = StatedKey(r.mem, r.cons)

\* the part of C15 that holds: non-SAMPLE records and whole samples
C15_KeyOfWholeRecords ==
    \A k \in 1..Len(heap) :
        LET r == rings[heap[k].ring_index]
        IN  (PeekType(r.mem, r.cons) # PERF_RECORD_SAMPLE
               \/ PeekSize(r.mem, r.cons).size >= SampleHeaderSize)
            => heap[k].timestamp = StatedKey(r.mem, r.cons)


----------------------------------------------------------------------------
(* Properties of the dispatcher *)

\* the callbacks registered for the record rec
RegisteredFor(rec) ==
    IF rec.type = PERF_RECORD_SAMPLE
    THEN sample_subscribers[FromLeBytes(SubSeq(rec.data, 1, 4))]
    ELSE IF rec.type = PERF_RECORD_LOST THEN lost_subscribers
    ELSE <<>>

\* C16: a dispatch that consumes from ring i a SAMPLE of message type k
\* invokes the callbacks subscribed to k, each once and in the order they
\* were registered, with ring index i and the payload of the record, and
\* no callback of another message type and no lost-record callback; a
\* dispatch that consumes a LOST record invokes the lost-record callbacks,
\* each once, and no sample callback.
C16_SubscribersInvoked ==
    [][ \A i \in 1..Len(rings) :
          Len(consumed'[i]) = Len(consumed[i]) + 1 =>
            LET rec == produced[i][Len(consumed[i]) + 1]
                expected == RegisteredFor(rec)
            IN  /\ Len(calls') = Len(expected)
                /\ \A j \in 1..Len(expected) :
                     /\ calls'[j].subscriber = expected[j]
                     /\ calls'[j].ring_index = i
                     /\ ReadsAs([type |-> rec.type, size |-> Len(calls'[j].data),
                                 bytes |-> calls'[j].data], rec)
                /\ dlast' = "Ok"
      ]_vars

\* a sample and then a lost record have been dispatched while callbacks for
\* the sample's type, for the other type and for lost records were
\* registered: the last dispatch invoked the lost-record callback only
C16_Witness ==
    /\ sample_subscribers[MSG_TYPE_FOO] = <<1>>
    /\ lost_subscribers = <<2>>
    /\ sample_subscribers[MSG_TYPE_BAR] = <<3>>
    /\ stats.samples_processed = 1
    /\ stats.lost_events_processed = 1
    /\ Len(calls) = 1 /\ calls[1].subscriber = 2
    /\ \E i \in 1..Len(rings) :
         /\ Len(consumed[i]) = 2
         /\ produced[i][1].type = PERF_RECORD_SAMPLE
         /\ produced[i][2].type = PERF_RECORD_LOST

\* C17: a dispatch that meets a SAMPLE too short for the sample header
\* returns InvalidFormat, pops the record from the reader and increments
\* the counters, so that the next dispatch sees the following record.
C17_MalformedDropped ==
    [][ (dlast' = "InvalidFormat" /\ dlast # "InvalidFormat") =>
           /\ \E i \in 1..Len(rings) : Len(consumed'[i]) = Len(consumed[i]) + 1
           /\ stats' # stats
      ]_vars

\* what dispatch does with such a record: InvalidFormat is returned and
\* nothing else happens, the record stays at the head of its ring
C17_MalformedStays ==
    [][ (dlast' = "InvalidFormat" /\ dlast # "InvalidFormat") =>
           /\ UNCHANGED <<readerVars, stats, sample_subscribers, lost_subscribers>>
           /\ calls' = <<>>
      ]_vars


----------------------------------------------------------------------------
(* Order of timeslot events and perf measurements in the collector *)

\* the boundary of the timeslot a timestamp lies in
SlotStart(timestamp) == (timestamp \div TimeSlotSize) * TimeSlotSize

\* C18 as stated: a PERF_MEASUREMENT whose timestamp lies in the timeslot
\* starting at B is delivered to the perf subscriber only after the
\* timeslot event with new boundary B was delivered to the timeslot
\* subscribers.
C18_AsStated ==
    [][ Len(perf_delivered') = Len(perf_delivered) + 1 =>
           SlotStart(perf_delivered'[Len(perf_delivered')].timestamp) \in announced
      ]_vars

\* C18, amended: the timeslot event with new boundary B is delivered to
\* every timeslot subscriber within the dispatch of the TIMER_FINISHED
\* record that moves the minimum over the CPUs to B, a dispatch that
\* delivers no measurement; from then on the current timeslot starts at B
\* and no PERF_MEASUREMENT of an earlier timeslot is delivered any more.
\* (A measurement of the timeslot starting at B may be delivered before
\* that event, while another CPU has not yet reached B.)
C18_AdvanceBeforeLaterMeasurements ==
    [][ /\ last_min_slot' # last_min_slot =>
             /\ last_min_slot' # None
             /\ Len(delivered') = subscribers
             /\ \A s \in 1..subscribers : delivered'[s].new = last_min_slot'[1]
             /\ announced' = announced \cup {last_min_slot'[1]}
             /\ current_timeslot' = TimeslotDataNew(last_min_slot'[1])
             /\ perf_delivered' = perf_delivered
        /\ Len(perf_delivered') = Len(perf_delivered) + 1 =>
             LET p == perf_delivered'[Len(perf_delivered')]
             IN  /\ announced' = announced
                 /\ \A B \in announced : p.timestamp >= B
                 /\ p.timeslot = current_timeslot.start_timestamp
                 /\ p.timeslot \in announced \cup {0}
                 /\ \A B \in announced : B <= p.timeslot
      ]_vars

\* both CPUs have passed the first boundary, the event was delivered, and a
\* measurement of that timeslot was then delivered into the new timeslot
C18_Witness ==
    /\ announced = {TimeSlotSize}
    /\ Len(perf_delivered) = 1
    /\ perf_delivered[1].timeslot = TimeSlotSize
    /\ SlotStart(perf_delivered[1].timestamp) = TimeSlotSize
    /\ current_timeslot.updates = 1


----------------------------------------------------------------------------
(* Properties of the sync timer bootstrap *)

\* C19: the attempts are made in the order MODERN, INTERMEDIATE, LEGACY,
\* each running its sweep in its own mode; an attempt is followed by
\* another only if it failed, so success is returned at the first attempt
\* that succeeds; and AllMethodsFailed is returned exactly when all three
\* attempts have failed.
C19_FallbackOrder ==
    /\ Len(attempts) <= Len(Modes)
    /\ \A k \in 1..Len(attempts) :
         /\ attempts[k].mode = Modes[k]
         /\ k < Len(attempts) => attempts[k].result.err # "Ok"
    /\ sync_pc \in {"core", "restore_affinity", "restore_sysctl"} =>
         \A j \in 1..Len(invoked) : invoked[j].mode = Modes[mode]
    /\ sync_pc # "returned" => (sync_result = "None" /\ mode = Len(attempts) + 1)
    /\ sync_pc = "returned" => sync_result \in {"Ok", "AllMethodsFailed"}
    /\ sync_result = "Ok" <=>
         (attempts # <<>> /\ attempts[Len(attempts)].result.err = "Ok")
    /\ sync_result = "AllMethodsFailed" <=>
         (Len(attempts) = Len(Modes) /\ \A k \in 1..Len(attempts) : attempts[k].result.err # "Ok")

\* success at the third mode, after the first two have failed, with the
\* program run on every CPU in LEGACY mode
C19_Witness ==
    /\ sync_result = "Ok"
    /\ Len(attempts) = 3
    /\ attempts[1].result.err = "MultipleFailures"
    /\ attempts[3].runs = NumCpus

\* the sweep has returned: from its loop, or before it
SweepReturned == sync_pc = "restore_sysctl"

\* the CPUs on which the program ran and returned SUCCESS
Succeeded == {invoked[j].cpu_id : j \in {i \in 1..Len(invoked) : invoked[i].success}}

Ascending(sq) == \A j, k \in 1..Len(sq) : j < k => sq[j] < sq[k]

\* the part of C20 about the loop: the program is run at most once per
\* CPU, in ascending order, with the thread pinned to that CPU and running
\* on it; a CPU that fails is recorded and the loop goes on to the last CPU
SweepLoopOK ==
    /\ Ascending([j \in 1..Len(invoked) |-> invoked[j].cpu_id])
    /\ \A j \in 1..Len(invoked) :
         /\ invoked[j].cpu_id < next_cpu
         /\ invoked[j].affinity = {invoked[j].cpu_id}
         /\ invoked[j].current_cpu = invoked[j].cpu_id
    /\ Ascending(failed_cores)
    /\ sync_pc \in {"core", "restore_affinity"} =>
         {failed_cores[j] : j \in 1..Len(failed_cores)} = (0..(next_cpu - 1)) \ Succeeded
    /\ sync_pc = "restore_affinity" => next_cpu = NumCpus

\* C20 as stated: the loop as above, and the sweep returns success iff no
\* CPU failed, and otherwise MultipleFailures with exactly the failed CPUs
\* and total_count = N.
C20_AsStated ==
    /\ SweepLoopOK
    /\ SweepReturned =>
         /\ sweep_result.err = "Ok" <=> failed_cores = <<>>
         /\ failed_cores # <<>> =>
              sweep_result = [err |-> "MultipleFailures", failed_cores |-> failed_cores,
                              total_count |-> NumCpus]

\* C20, amended: the loop as above; when the affinity was captured, the
\* CPUs counted and the affinity restored after the loop, the sweep
\* returns success iff no CPU failed and otherwise MultipleFailures with
\* exactly the failed CPUs and total_count = N; when the affinity cannot be
\* captured or the CPUs counted it returns that error without visiting a
\* CPU, and when the affinity cannot be restored it returns
\* AffinityRestoreFailed, whether or not a CPU failed.
C20_SweepResult ==
    /\ SweepLoopOK
    /\ SweepReturned =>
         \/ /\ sweep_result.err \in {"AffinityGetFailed", "CpuCountFailed"}
            /\ next_cpu = 0 /\ invoked = <<>> /\ failed_cores = <<>>
         \/ /\ sweep_result.err = "AffinityRestoreFailed"
            /\ next_cpu = NumCpus
         \/ /\ sweep_result = OkResult
            /\ next_cpu = NumCpus
            /\ failed_cores = <<>>
            /\ Succeeded = Cpus
            /\ thread_affinity = original_cpu_set
         \/ /\ sweep_result = [err |-> "MultipleFailures", failed_cores |-> failed_cores,
                                total_count |-> NumCpus]
            /\ next_cpu = NumCpus
            /\ failed_cores # <<>>
            /\ {failed_cores[j] : j \in 1..Len(failed_cores)} = Cpus \ Succeeded
            /\ thread_affinity = original_cpu_set

\* a sweep in which the first CPU failed and the last one succeeded
C20_Witness ==
    /\ SweepReturned
    /\ sweep_result = [err |-> "MultipleFailures", failed_cores |-> <<0>>,
                       total_count |-> NumCpus]
    /\ Len(invoked) = NumCpus
    /\ ~invoked[1].success


----------------------------------------------------------------------------
(* Properties of the process: main.rs and parquet_writer_task.rs *)

\* the threads of the process are weakly fair: each keeps running while
\* it has something to do
SpecMainLive ==
    /\ SpecMain
    /\ WF_mainVars(PollLoopCheck \/ PollEventsAny \/ MainJoin)
    /\ WF_mainVars(MonitorSignalAny \/ MonitorBpfError \/ MonitorWriterDone \/ MonitorSigusr1
               \/ MonitorRotateResume \/ MonitorJoinWriter)
    /\ WF_mainVars(WriterTaskLoopAny \/ WriterTaskSelectAny)

\* C21: the process exits with a nonzero status when poll_events reported
\* a fatal error or a TIMER_MIGRATION_DETECTED sample was dispatched, and
\* with status 0 after a clean shutdown.
C21_ExitStatus ==
    main_pc = "exited" =>
        (exit_status = "failure" <=> poll_last \in {"Err", "TimerMigration"})

\* what the code does: the status is nonzero only through the exit(1) of
\* the timer migration handler
C21_ExitStatusOfCode ==
    main_pc = "exited" =>
        (exit_status = "failure" <=> poll_last = "TimerMigration")

\* C22: when the writer task completes after a shutdown signal, every
\* item that was queued when the signal was given has been written, and
\* the file was closed once.
C22_DrainedOnShutdown ==
    (writer_pc = "returned" /\ writer_result = "Ok" /\ shutdown_signal) =>
        /\ \A k \in 1..Len(queued_at_shutdown) :
              \E j \in 1..Len(items_written) : items_written[j] = queued_at_shutdown[k]
        /\ closes = 1

\* what the code does: the file is closed once, and only by a task that
\* was told to shut down
C22_ClosedOnce ==
    /\ closes <= 1
    /\ closes = 1 => (writer_pc = "returned" /\ shutdown_signal)

\* C23: a step in which the writer returns an I/O error inside the task
\* ends the task with that error.
C23_IoErrorFatal ==
    [][io_errors' = io_errors + 1 => (writer_pc' = "returned" /\ writer_result' = "Err")]_vars

\* C24: once the writer task has ended with an error or a panic, the main
\* thread eventually leaves the poll loop and the process exits.
C24_WriterFailureStopsPolling ==
    (writer_pc = "returned" /\ writer_result \in {"Err", "Panicked"}) ~> (main_pc = "exited")

\* what the code does: when the monitoring task returns through the arm
\* for the writer's join handle, the poll loop has not been told
C24_WriterArmDropsShutdown ==
    (monitor_pc = "returned" /\ shutdown_tx # "sent") =>
        (writer_pc = "returned" /\ monitor_result = "Err")

\* C25: the rotate channel holds at most one signal, and a SIGUSR1 that
\* arrives while one is queued leaves the monitoring task in its select
\* loop, the signal being dropped.
C25_RotateNeverBlocks ==
    /\ [](rotate_channel <= RotateCapacity)
    /\ [][(rotate_requests' = rotate_requests + 1 /\ rotate_channel = RotateCapacity)
            => (monitor_pc' = "select" /\ rotate_channel' = rotate_channel)]_vars


----------------------------------------------------------------------------
(* Properties of the sinks: bpf_perf_to_timeslot.rs and bpf_perf_to_trace.rs *)

\* the part of C26 about the aggregator: on_new_timeslot replaces
\* current_timeslot by an empty TimeslotData starting at the new boundary
\* and either queues the replaced value or counts it (the count going to
\* the log and back to 0 when it is reported)
C26_AggregatorReplaces ==
    [][Len(delivered') = Len(delivered) + 1 =>
         /\ current_timeslot' = TimeslotDataNew(delivered'[Len(delivered')].new)
         /\ \/ /\ timeslot_tx' = Append(timeslot_tx, current_timeslot)
               /\ error_counter' = error_counter
            \/ /\ timeslot_tx' = timeslot_tx
               /\ error_counter' \in {error_counter + 1, 0}]_vars

\* C26, for the trace builder: every batch that was refused by the full
\* channel is counted. BpfPerfToTrace keeps no counter, so the batches
\* counted are none.
C26_TraceDropsCounted == trace_dropped = 0

\* what the code does in the trace builder: a batch handed to try_send is
\* queued or lost, and the polling thread goes on with empty builders
C26_TraceNeverBlocks ==
    [][Len(trace_emitted') = Len(trace_emitted) + 1 =>
         /\ current_rows' = 0
         /\ \/ batch_channel' = Append(batch_channel, trace_emitted'[Len(trace_emitted')])
            \/ (batch_channel' = batch_channel /\ trace_dropped' = trace_dropped + 1)]_vars

\* C28: the pending row count never exceeds the capacity, and rows do not
\* stay pending for more than a second, whether or not a sample arrives.
C28_EmittedWithinInterval ==
    /\ current_rows <= TraceCapacity
    /\ (batch_tx /\ current_rows > 0) => trace_clock - last_flush <= TicksPerSecond

\* what the code does: a batch is emitted by the sample that fills the
\* builders or that arrives a second or more after the last flush, and by
\* shutdown; the pending rows are fewer than the capacity
C28_FlushOnSample ==
    /\ [](current_rows < TraceCapacity)
    /\ [][Len(trace_emitted') = Len(trace_emitted) + 1 =>
            /\ current_rows' = 0
            /\ last_flush' = trace_clock
            /\ \/ ~batch_tx'
               \/ trace_emitted'[Len(trace_emitted')] = current_rows + 1]_vars
    /\ [][(batch_tx' /\ current_rows' > current_rows) =>
            (current_rows' = current_rows + 1
             /\ ElapsedSecs(trace_clock, last_flush) < 1)]_vars


----------------------------------------------------------------------------
(* Properties of the error paths of the timeslot tracker *)

\* the update of the last TIMER_FINISHED record failed
UpdateFailed == tcall.res \in {"NonMonotonicTimestamp", "CpuIdOutOfRange"}

\* C27: after a TIMER_FINISHED record whose update failed, the tracker is
\* handed no further record: the failure has stopped the dispatching.
C27_UpdateErrorStopsDispatch ==
    [][UpdateFailed => tcall' = tcall]_vars

\* what the code does: the failed record leaves the tracker as it was and
\* reaches no subscriber; the handler returns nothing to its caller
C27_UpdateErrorIgnored ==
    [][(tcall' # tcall /\ tcall'.res \in {"NonMonotonicTimestamp", "CpuIdOutOfRange"}) =>
         /\ min_tracker' = min_tracker
         /\ last_min_slot' = last_min_slot
         /\ delivered' = <<>>]_vars


----------------------------------------------------------------------------
(* Properties of the Reader's order among equal keys *)

\* C29: a record popped by the Reader comes from the ring of smallest
\* ring_index among the rings whose head records have the key of the
\* popped record.
C29_TieBreakByRingIndex ==
    [][Len(popped') = Len(popped) + 1 =>
         LET p == popped'[Len(popped')]
         IN  \A j \in 1..Len(heap) :
                heap[j].timestamp = p.key => p.ring <= heap[j].ring_index]_vars

\* what the code does: the record popped has a minimal key, whatever its
\* ring
C29_MinimalKeyOnly ==
    [][Len(popped') = Len(popped) + 1 =>
         LET p == popped'[Len(popped')]
         IN  /\ \A j \in 1..Len(heap) : U64Leq(p.key, heap[j].timestamp)
             /\ \E j \in 1..Len(heap) : heap[j] = [timestamp |-> p.key, ring_index |-> p.ring]]_vars


----------------------------------------------------------------------------
(* Properties of one producer and one consumer on the same ring *)

\* the offsets of the bytes between positions a (included) and b
Region(a, b) == {p % RingDataLen : p \in a..(b - 1)}

\* C30: whatever the interleaving of the producer and the consumer, pop
\* moves only the consumer's own head; data_tail changes only in
\* finish_read_batch, which sets it to the consumer's head; and no step
\* changes a byte between data_tail and the producer's tail, that is, of a
\* record the consumer has not released.
C30_UnreleasedNotOverwritten ==
    /\ [][cons'.head # cons.head => (rbatch /\ mem' = mem /\ prod' = prod)]_vars
    /\ [][mem'.data_tail # mem.data_tail =>
            (rbatch /\ ~rbatch' /\ mem'.data_tail = cons.head /\ cons' = cons)]_vars
    /\ [][\A i \in Region(mem.data_tail, prod.tail) : Byte(mem', i) = Byte(mem, i)]_vars
    /\ [](prod.tail - mem.data_tail <= RingDataLen)

\* the producer is refused space that the consumer has popped but not yet
\* released
C30_Witness ==
    /\ wbatch /\ rbatch
    /\ ret = "NoSpace"
    /\ cons.head > mem.data_tail


----------------------------------------------------------------------------
(* Properties of the error returns of PerfRing::write *)

\* the returns of a write of n bytes of type t, the too-large error being
\* given for an aligned length above limit
WriteReturns(n, t, limit) ==
    LET aligned == AlignedLen(n, t)
    IN  /\ (ret' = "EmptyWrite") <=> (n = 0)
        /\ n >= 1 => ((ret' = "CannotFit") <=> (aligned > limit))
        /\ n >= 1 => ((ret' = "NoSpace") <=>
                         (aligned <= limit /\ prod.tail + aligned - prod.head > BufMask(mem) + 1))
        /\ ret' # "Ok" => UNCHANGED <<mem, prod, cons, pending>>

\* C31: write returns CannotFit exactly when aligned > buf_mask + 1, and
\* NoSpace exactly when aligned fits and produced + aligned - snapshot >
\* buf_mask + 1; an empty payload is rejected; a rejected write leaves the
\* ring unchanged.
C31_WriteErrors ==
    [][\A n \in RingPayloadLens, t \in {PERF_RECORD_SAMPLE, PERF_RECORD_LOST} :
         Write(TestPayload(n, nwrites + 1), t) => WriteReturns(n, t, BufMask(mem) + 1)]_vars

\* what the code does: the same with the too-large error given already
\* for aligned > buf_mask, that is, for aligned = data length too
C31_WriteErrorsOfCode ==
    [][\A n \in RingPayloadLens, t \in {PERF_RECORD_SAMPLE, PERF_RECORD_LOST} :
         Write(TestPayload(n, nwrites + 1), t) => WriteReturns(n, t, BufMask(mem))]_vars


(* C32: the tracker's map is the multiset of the slots of the CPUs that     *)
(* have reported: every key has a positive count equal to the number of     *)
(* CPUs whose latest accepted timestamp lies in that slot, every such slot  *)
(* is a key, and uninitialized_cpus counts the CPUs without a timestamp.    *)
(* Hence, once every CPU has reported, get_min is floor(m / slot width) *   *)
(* slot width for m the least of the CPUs' latest accepted timestamps.      *)
ReportedCpus(mt) == {c \in DOMAIN mt.cpu_timestamps : mt.cpu_timestamps[c] # None}

CpuSlot(mt, c) == mt.cpu_timestamps[c][1] \div mt.time_slot_size

C32_MinOfSlots ==
    LET mt == min_tracker
        reported == ReportedCpus(mt)
    IN  /\ mt.uninitialized_cpus = Len(mt.cpu_timestamps) - Cardinality(reported)
        /\ DOMAIN mt.time_slot_counts = {CpuSlot(mt, c) : c \in reported}
        /\ \A k \in DOMAIN mt.time_slot_counts :
              /\ mt.time_slot_counts[k] > 0
              /\ mt.time_slot_counts[k] = Cardinality({c \in reported : CpuSlot(mt, c) = k})
        /\ mt.uninitialized_cpus = 0 =>
              \E c \in reported :
                 /\ \A d \in reported : mt.cpu_timestamps[c][1] <= mt.cpu_timestamps[d][1]
                 /\ GetMin(mt) = Some((mt.cpu_timestamps[c][1] \div mt.time_slot_size)
                                          * mt.time_slot_size)

\* every CPU has reported, the CPUs stand in different slots and the least
\* slot is not the first one any more: a count went down to 0 and its key left
C32_Witness ==
    /\ min_tracker.uninitialized_cpus = 0
    /\ Cardinality(DOMAIN min_tracker.time_slot_counts) = 2
    /\ GetMin(min_tracker) # None
    /\ GetMin(min_tracker)[1] >= TimeSlotSize
    /\ \E c \in ReportedCpus(min_tracker) :
          min_tracker.cpu_timestamps[c][1] % TimeSlotSize # 0


(* Properties of the aggregator's TimeslotData *)

\* the measurements that were parsed while the TimeslotData starting at
\* start_timestamp was the current one, as indices of perf_delivered
SamplesOf(start_timestamp) ==
    {i \in 1..Len(perf_delivered) :
        perf_delivered[i].parsed /\ perf_delivered[i].timeslot = start_timestamp}

RECURSIVE SumOver(_, _)
SumOver(S, f) ==
    IF S = {} THEN 0
    ELSE LET i == CHOOSE j \in S : TRUE IN f[i] + SumOver(S \ {i}, f)

\* the component-wise sum of the deltas of a set of measurements
SumOfDeltas(S) ==
    [cycles |-> SumOver(S, [i \in S |-> perf_delivered[i].metric.cycles]),
     instructions |-> SumOver(S, [i \in S |-> perf_delivered[i].metric.instructions]),
     llc_misses |-> SumOver(S, [i \in S |-> perf_delivered[i].metric.llc_misses]),
     cache_references |-> SumOver(S, [i \in S |-> perf_delivered[i].metric.cache_references]),
     time_ns |-> SumOver(S, [i \in S |-> perf_delivered[i].metric.time_ns])]

AccountsFor(td) ==
    LET S == SamplesOf(td.start_timestamp)
    IN  /\ DOMAIN td.tasks = {perf_delivered[i].pid : i \in S}
        /\ td.updates = Cardinality(S)
        /\ \A p \in DOMAIN td.tasks :
              td.tasks[p].metrics = SumOfDeltas({i \in S : perf_delivered[i].pid = p})

(* C33: every TimeslotData, the current one and each one handed downstream, *)
(* holds for each pid the component-wise sum of the deltas of the parsed    *)
(* measurements of that pid dispatched while it was current, whatever their *)
(* order, and holds no other pid; the TimeslotData have different starts,   *)
(* so a measurement is accumulated into one of them only.                   *)
C33_CountersAreSums ==
    /\ AccountsFor(current_timeslot)
    /\ \A k \in 1..Len(timeslot_tx) :
          /\ AccountsFor(timeslot_tx[k])
          /\ timeslot_tx[k].start_timestamp < current_timeslot.start_timestamp
          /\ \A j \in 1..Len(timeslot_tx) :
                j # k => timeslot_tx[j].start_timestamp # timeslot_tx[k].start_timestamp
    /\ \A i \in 1..Len(perf_delivered) :
          perf_delivered[i].timeslot <= current_timeslot.start_timestamp

\* a TimeslotData handed downstream at the second advance with two tasks,
\* one of them measured twice with different deltas
C33_Witness ==
    \E k \in 1..Len(timeslot_tx) :
        /\ timeslot_tx[k].start_timestamp = TimeSlotSize
        /\ DOMAIN timeslot_tx[k].tasks = AggPids
        /\ timeslot_tx[k].tasks[1].metrics = MetricFromDeltas(1, 2, 1, 1, 2)

(* C39: the metadata a TimeslotData stores for a pid is what lookup(pid)    *)
(* returned at the first parsed measurement of that pid accumulated into    *)
(* it; later measurements of the pid leave it alone.                        *)
FirstSample(td, p) ==
    CHOOSE i \in SamplesOf(td.start_timestamp) :
        /\ perf_delivered[i].pid = p
        /\ \A j \in SamplesOf(td.start_timestamp) : perf_delivered[j].pid = p => i <= j

MetadataIsFirstSnapshot(td) ==
    \A p \in DOMAIN td.tasks :
        td.tasks[p].metadata = perf_delivered[FirstSample(td, p)].metadata

C39_MetadataIsFirstSnapshot ==
    /\ MetadataIsFirstSnapshot(current_timeslot)
    /\ \A k \in 1..Len(timeslot_tx) : MetadataIsFirstSnapshot(timeslot_tx[k])

\* TASK_METADATA arrived between two measurements of task 1 in one timeslot:
\* the first saw None, the second Some, and None is what is stored
C39_Witness ==
    /\ 1 \in DOMAIN current_timeslot.tasks
    /\ current_timeslot.tasks[1].metadata = None
    /\ \E i, j \in SamplesOf(current_timeslot.start_timestamp) :
          /\ i < j
          /\ perf_delivered[i].pid = 1 /\ perf_delivered[i].metadata = None
          /\ perf_delivered[j].pid = 1 /\ perf_delivered[j].metadata # None


(* Properties of the sweep's affinity and of the sysctl *)

\* initialize_timers_on_all_cores has returned after capturing the mask
SweepReturnedWithMask ==
    /\ sync_pc = "restore_sysctl"
    /\ sweep_result.err # "AffinityGetFailed"

(* C34 as stated: after the sweep has returned on any path, the thread's    *)
(* affinity mask is the mask captured on entry.                             *)
C34_AsStated == SweepReturnedWithMask => thread_affinity = original_cpu_set

(* C34: after the sweep has returned with anything but                      *)
(* AffinityRestoreFailed (success, MultipleFailures after pin or init       *)
(* failures, CpuCountFailed), the thread's affinity mask is the mask        *)
(* captured on entry; AffinityRestoreFailed is returned exactly when the    *)
(* restoring sched_setaffinity failed, and the mask is then the one the     *)
(* loop left.                                                               *)
C34_AffinityRestored ==
    /\ SweepReturnedWithMask /\ sweep_result.err # "AffinityRestoreFailed"
          => thread_affinity = original_cpu_set
    /\ [][sync_pc = "restore_affinity" /\ sync_pc' = "restore_sysctl" =>
             IF sweep_result'.err = "AffinityRestoreFailed"
             THEN thread_affinity' = thread_affinity
             ELSE thread_affinity' = original_cpu_set]_vars

\* a sweep that pinned the thread to single CPUs, failed on some of them and
\* returned MultipleFailures with the captured mask in place again
C34_Witness ==
    /\ SweepReturnedWithMask
    /\ sweep_result.err = "MultipleFailures"
    /\ invoked # <<>>
    /\ thread_affinity = original_cpu_set
    /\ original_cpu_set = Cpus


\* the per-CPU sweep is under way
InSweep == sync_pc \in {"all_cores", "core", "restore_affinity"}

(* C35: in INTERMEDIATE and LEGACY modes the sysctl is 0 from the start of   *)
(* the sweep to its end, whatever the sweep does; when the sweep has ended   *)
(* the value read before it is written back if it was not 0 (if it was 0     *)
(* nothing was written and 0 stays): after a write-back that succeeded the   *)
(* sysctl has that value, after one that failed it is still 0, and in both   *)
(* cases the attempt's result is the sweep's.  An attempt in MODERN mode     *)
(* leaves the sysctl alone and has nothing to write back.                    *)
C35_SysctlAroundSweep ==
    /\ [](InSweep \/ sync_pc = "restore_sysctl" =>
            IF Modes[mode] = "MODERN"
            THEN original_migration = None
            ELSE /\ timer_migration = 0
                 /\ original_migration # None => original_migration[1] # 0)
    /\ [][/\ sync_pc = "with_mode" /\ sync_pc' = "all_cores" =>
                IF Modes[mode] = "MODERN"
                THEN timer_migration' = timer_migration /\ original_migration' = None
                ELSE original_migration' =
                        IF timer_migration # 0 THEN Some(timer_migration) ELSE None
          /\ sync_pc = "with_mode" /\ Modes[mode] = "MODERN" => sync_pc' = "all_cores"
          /\ sync_pc = "restore_sysctl" =>
                LET a == attempts'[Len(attempts')]
                IN  /\ Len(attempts') = Len(attempts) + 1
                    /\ a.result = sweep_result
                    /\ a.original_migration = original_migration
                    /\ a.writeback = "none" <=> original_migration = None
                    /\ a.writeback = "none" => timer_migration' = timer_migration
                    /\ a.writeback = "ok" => timer_migration' = original_migration[1]
                    /\ a.writeback = "failed" => timer_migration' = 0
                    /\ a.mode = "MODERN" => a.writeback = "none"]_vars

\* a LEGACY attempt that found the sysctl at 1, swept with it at 0, could not
\* write it back and still returned the sweep's success
C35_Witness ==
    /\ sync_pc = "returned"
    /\ Len(attempts) = Len(Modes)
    /\ attempts[Len(attempts)].writeback = "failed"
    /\ attempts[Len(attempts)].result = OkResult
    /\ attempts[Len(attempts)].runs = NumCpus
    /\ timer_migration = 0
    /\ \E k \in 1..Len(attempts) : attempts[k].writeback = "ok"


(* Properties of the Reader after start *)

\* start has just returned Ok
Started == active /\ last = [op |-> "start", res |-> "Ok"]

\* the bytes of ring i published when start looked and not consumed yet
Unread(i) == rings[i].cons.tail - rings[i].cons.head

(* C36: after start, is_empty() is false whenever a ring holds a published  *)
(* record that was not read, a ring that is completely full included.       *)
C36_StartSeesPublished ==
    Started /\ (\E i \in 1..Len(rings) : Unread(i) > 0) => ~IsEmpty

\* the same for rings that are not completely full: this is what the code does
C36_StartSeesPublishedUnlessFull ==
    /\ Started /\ (\E i \in 1..Len(rings) : Unread(i) > 0 /\ Unread(i) < ReaderDataLen)
          => ~IsEmpty
    /\ Started /\ IsEmpty => \A i \in 1..Len(rings) : Unread(i) \in {0, ReaderDataLen}


(* Properties of the dispatcher's counters *)

\* the records popped from the reader so far
TotalPopped == SumSeq([i \in 1..Len(consumed) |-> Len(consumed[i])])

Handled == stats.samples_processed + stats.lost_events_processed + stats.dropped_messages

\* the counter dispatch adds to for a record it pops
CounterOf(rec) ==
    IF rec.type = PERF_RECORD_SAMPLE
    THEN IF SampleCallbacks(sample_subscribers, HeaderType(rec.bytes)) # <<>>
         THEN "samples_processed" ELSE "dropped_messages"
    ELSE IF rec.type = PERF_RECORD_LOST THEN "lost_events_processed"
    ELSE "dropped_messages"

(* C37: samples_processed + lost_events_processed + dropped_messages is the  *)
(* number of records the dispatcher has popped and callback_errors stays 0;  *)
(* a dispatch on a reader that is not empty and that returns Ok pops one     *)
(* record and adds 1 to one counter: samples_processed for a sample with     *)
(* subscribers, lost_events_processed for a lost record, dropped_messages    *)
(* for a sample without subscribers or a record of an unknown type; a        *)
(* dispatch that returns an error or finds the reader empty changes no       *)
(* counter and pops nothing.                                                 *)
C37_CountersMatchPops ==
    /\ [](Handled = TotalPopped /\ stats.callback_errors = 0)
    /\ [][Dispatch =>
            IF ~IsEmpty /\ dlast' = "Ok"
            THEN \E i \in 1..Len(consumed) :
                   /\ consumed' = [consumed EXCEPT
                                      ![i] = Append(@, RecordAt(rings[i].mem, rings[i].cons))]
                   /\ stats' = [stats EXCEPT
                                   ![CounterOf(RecordAt(rings[i].mem, rings[i].cons))] = @ + 1]
            ELSE stats' = stats /\ consumed' = consumed /\ rings' = rings]_vars

\* a record of an unknown type was popped and counted as dropped, another
\* record was handed to its subscribers
C37_Witness ==
    /\ \E i \in 1..Len(consumed), j \in 1..MaxDispatcherRecords :
          j <= Len(consumed[i])
          /\ consumed[i][j].type \notin {PERF_RECORD_SAMPLE, PERF_RECORD_LOST}
    /\ stats.dropped_messages >= 1
    /\ stats.samples_processed + stats.lost_events_processed >= 1
    /\ calls # <<>>


(* Properties of the task tracker's queued removals *)

QueuedPids == {removal_queue[k] : k \in 1..Len(removal_queue)}

(* C38: the pids an advance removes are exactly the pids for which            *)
(* handle_task_free was called while they were present since the previous     *)
(* advance (freed), whatever handle_task_metadata did to them afterwards;     *)
(* the other tasks are kept as they are; a TASK_FREE for an absent pid        *)
(* queues nothing; the advance empties the queue, so that an advance          *)
(* following it at once removes nothing.                                      *)
C38_RemovedAreFreed ==
    /\ [](QueuedPids = freed /\ freed \subseteq DOMAIN tasks)
    /\ [][/\ OnNewTimeslot =>
               /\ removed' = freed
               /\ DOMAIN tasks' = DOMAIN tasks \ freed
               /\ \A p \in DOMAIN tasks' : tasks'[p] = tasks[p]
               /\ removal_queue' = <<>>
               /\ removal_queue = <<>> => tasks' = tasks
          /\ \A p \in Pids :
               /\ HandleTaskFree(TRUE, p) /\ p \notin DOMAIN tasks
                     => removal_queue' = removal_queue
               /\ HandleTaskFree(TRUE, p) /\ p \in DOMAIN tasks
                     => removal_queue' = Append(removal_queue, p)
               /\ (\E comm \in Comms : HandleTaskMetadata(TRUE, p, comm))
                     => removal_queue' = removal_queue /\ p \in DOMAIN tasks']_vars

\* an advance has just removed two tasks and kept a third
C38_Witness ==
    /\ Cardinality(removed) = 2
    /\ removal_queue = <<>>
    /\ freed = {}
    /\ tasks # <<>>


\* the positions of the heap that hold an entry of ring i
EntriesOf(i) == {k \in 1..Len(heap) : heap[k].ring_index = i}

(* C40: between the Reader's operations, idle or active, in_heap[i] is true *)
(* exactly when the heap holds one entry for ring i, the heap never holds   *)
(* two entries for one ring, and a ring with an entry is not empty and its  *)
(* entry's key is the key of the record at the ring's head.                 *)
C40_HeapMatchesInHeap ==
    /\ Len(in_heap) = Len(rings)
    /\ \A k \in 1..Len(heap) : heap[k].ring_index \in 1..Len(rings)
    /\ \A i \in 1..Len(rings) :
          /\ Cardinality(EntriesOf(i)) <= 1
          /\ in_heap[i] <=> Cardinality(EntriesOf(i)) = 1
          /\ \A k \in EntriesOf(i) :
                /\ Unread(i) > 0
                /\ heap[k].timestamp = StatedKey(rings[i].mem, rings[i].cons)

\* what the code keeps: the same, with the key compared for head records
\* that are not truncated samples
C40_HeapMatchesInHeapWholeRecords ==
    /\ Len(in_heap) = Len(rings)
    /\ \A k \in 1..Len(heap) : heap[k].ring_index \in 1..Len(rings)
    /\ \A i \in 1..Len(rings) :
          /\ Cardinality(EntriesOf(i)) <= 1
          /\ in_heap[i] <=> Cardinality(EntriesOf(i)) = 1
          /\ \A k \in EntriesOf(i) :
                /\ Unread(i) > 0
                /\ (PeekType(rings[i].mem, rings[i].cons) # PERF_RECORD_SAMPLE
                      \/ PeekSize(rings[i].mem, rings[i].cons).size >= SampleHeaderSize)
                   => heap[k].timestamp = StatedKey(rings[i].mem, rings[i].cons)

=============================================================================
